---- MODULE Spec2Model ----
(***************************************************************************)
(* Photo verification backend: criteria evaluator, retry loop and the      *)
(* internal / external verification handlers, modelled from                *)
(* lib/services/verification.ts (the orchestrator with billing data).      *)
(*                                                                         *)
(* Conventions of the model                                                *)
(*  - a JavaScript value (boolean | number | string | undefined) is a      *)
(*    tagged record [t, b, n, s]; strict equality === is record equality;  *)
(*    a string is the sequence of its characters;                          *)
(*  - confidences and thresholds are counted in hundredths (0.8 is 80);    *)
(*  - an optional object (T | null, T | undefined) is a sequence of        *)
(*    length at most one.                                                  *)
(***************************************************************************)
EXTENDS Integers, Sequences, FiniteSets, TLC

(***************************************************************************)
(* Bounds of the model.                                                    *)
(***************************************************************************)
MaxCriteria == 2

MaxResults == 2

MaxRetriesBound == 2

MaxReqs == 2

(***************************************************************************)
(* JavaScript values.                                                      *)
(***************************************************************************)
Undefined == [t |-> "undefined", b |-> FALSE, n |-> 0, s |-> <<>>]

BoolV(b) == [t |-> "boolean", b |-> b, n |-> 0, s |-> <<>>]

NumV(n) == [t |-> "number", b |-> FALSE, n |-> n, s |-> <<>>]

StrV(s) == [t |-> "string", b |-> FALSE, n |-> 0, s |-> s]

\* The result of a numeric conversion: NaN or an integer.
NaN == [nan |-> TRUE, n |-> 0]

Num(n) == [nan |-> FALSE, n |-> n]

\* String(value) for the value kinds that reach parseInt.
StringOf(v) ==
    CASE v.t = "string" -> v.s
      [] v.t = "boolean" -> IF v.b THEN <<"t", "r", "u", "e">>
                                   ELSE <<"f", "a", "l", "s", "e">>
      [] OTHER -> <<"u", "n", "d", "e", "f", "i", "n", "e", "d">>

Digits == {"0", "1", "2", "3", "4", "5", "6", "7", "8", "9"}

DigitVal(c) ==
    CASE c = "0" -> 0 [] c = "1" -> 1 [] c = "2" -> 2 [] c = "3" -> 3
      [] c = "4" -> 4 [] c = "5" -> 5 [] c = "6" -> 6 [] c = "7" -> 7
      [] c = "8" -> 8 [] c = "9" -> 9

RECURSIVE SkipWhite(_)
SkipWhite(s) ==
    IF s # <<>> /\ Head(s) = " " THEN SkipWhite(Tail(s)) ELSE s

\* The digits at the front of s, accumulated in base 10.
RECURSIVE ParseDigits(_, _)
ParseDigits(s, acc) ==
    IF s # <<>> /\ Head(s) \in Digits
        THEN ParseDigits(Tail(s), acc * 10 + DigitVal(Head(s)))
        ELSE acc

\* parseInt(string, 10): leading white space, an optional sign, then the
\* longest run of digits; NaN when there is no digit.
parseInt(str) ==
    LET t == SkipWhite(str)
        neg == t # <<>> /\ Head(t) = "-"
        u == IF t # <<>> /\ Head(t) \in {"-", "+"} THEN Tail(t) ELSE t
    IN  IF u = <<>> \/ Head(u) \notin Digits
            THEN NaN
            ELSE Num(IF neg THEN 0 - ParseDigits(u, 0) ELSE ParseDigits(u, 0))

\* x < y and x > y on numbers where x may be NaN (every comparison with
\* NaN is false).
NumLt(x, y) == ~x.nan /\ x.n < y

NumGt(x, y) == ~x.nan /\ x.n > y

(***************************************************************************)
(* Criteria evaluator.                                                     *)
(***************************************************************************)
NOT_EVALUATED ==
    StrV(<<"N", "O", "T", "_", "E", "V", "A", "L", "U", "A", "T", "E", "D">>)

NotEvaluatedReasoning == "Criterion was not evaluated by the model"

\* analysisResults.criteria_results.find(r => r.criterion_id === id):
\* the first entry with the id, as a sequence of length at most one.
RECURSIVE FindResult(_, _)
FindResult(results, id) ==
    IF results = <<>> THEN <<>>
    ELSE IF Head(results).criterion_id = id THEN <<Head(results)>>
    ELSE FindResult(Tail(results), id)

\* The count read from the provider's value.
CountOf(value) ==
    IF value.t = "number" THEN Num(value.n) ELSE parseInt(StringOf(value))

CountRule_NoMin(criterion, result, passed) ==
    IF criterion.type = "count"
       /\ (criterion.min # Undefined \/ criterion.max # Undefined)
    THEN LET count == CountOf(result.value)
             p1 == passed
         IN  IF criterion.max # Undefined /\ NumGt(count, criterion.max.n)
                THEN FALSE ELSE p1
    ELSE passed

\* The count override: below min or above max forces passed = false.
CountRule(criterion, result, passed) ==
    IF criterion.type = "count"
       /\ (criterion.min # Undefined \/ criterion.max # Undefined)
    THEN LET count == CountOf(result.value)
             p1 == IF criterion.min # Undefined /\ NumLt(count, criterion.min.n)
                      THEN FALSE ELSE passed
         IN  IF criterion.max # Undefined /\ NumGt(count, criterion.max.n)
                THEN FALSE ELSE p1
    ELSE passed

BooleanRule_OnlyLowers(criterion, result, passed) ==
    IF criterion.type = "boolean" /\ criterion.expectedValue # Undefined
    THEN passed /\ result.value = criterion.expectedValue
    ELSE passed

\* The boolean override: passed = (value === expectedValue).
BooleanRule(criterion, result, passed) ==
    IF criterion.type = "boolean" /\ criterion.expectedValue # Undefined
    THEN result.value = criterion.expectedValue
    ELSE passed

\* The confidence threshold, applied last.
ConfidenceGate(result, config, passed) ==
    IF result.confidence < config.confidenceThreshold THEN FALSE ELSE passed

NotEvaluatedResult(criterion) ==
    [criterionId |-> criterion.id,
     label |-> criterion.label,
     passed |-> FALSE,
     value |-> NOT_EVALUATED,
     confidence |-> 0,
     reasoning |-> NotEvaluatedReasoning]

EvaluateCriterion_GateBeforeOverride(criterion, analysisResults, config) ==
    LET found == FindResult(analysisResults.criteria_results, criterion.id)
    IN  IF found = <<>>
        THEN NotEvaluatedResult(criterion)
        ELSE LET result == found[1]
                 p0 == result.passed
                 p1 == CountRule(criterion, result, p0)
                 p2 == ConfidenceGate(result, config, p1)
                 p3 == BooleanRule(criterion, result, p2)
             IN  [criterionId |-> criterion.id,
                  label |-> criterion.label,
                  passed |-> p3,
                  value |-> result.value,
                  confidence |-> result.confidence,
                  reasoning |-> result.reasoning]

\* The callback of config.criteria.map.
EvaluateCriterion(criterion, analysisResults, config) ==
    LET found == FindResult(analysisResults.criteria_results, criterion.id)
    IN  IF found = <<>>
        THEN NotEvaluatedResult(criterion)
        ELSE LET result == found[1]
                 p0 == result.passed
                 p1 == CountRule(criterion, result, p0)
                 p2 == BooleanRule(criterion, result, p1)
                 p3 == ConfidenceGate(result, config, p2)
             IN  [criterionId |-> criterion.id,
                  label |-> criterion.label,
                  passed |-> p3,
                  value |-> result.value,
                  confidence |-> result.confidence,
                  reasoning |-> result.reasoning]

evaluateCriteria_ByPosition(analysisResults, config) ==
    [i \in 1..Len(config.criteria) |->
        IF i <= Len(analysisResults.criteria_results)
        THEN EvaluateCriterion(
                 config.criteria[i],
                 [analysisResults EXCEPT !.criteria_results =
                     <<[analysisResults.criteria_results[i] EXCEPT
                          !.criterion_id = config.criteria[i].id]>>],
                 config)
        ELSE NotEvaluatedResult(config.criteria[i])]

evaluateCriteria(analysisResults, config) ==
    [i \in 1..Len(config.criteria) |->
        EvaluateCriterion(config.criteria[i], analysisResults, config)]

\* criteriaResults.find(r => r.criterionId === id)
RECURSIVE FindCriterionResult(_, _)
FindCriterionResult(criteriaResults, id) ==
    IF criteriaResults = <<>> THEN <<>>
    ELSE IF Head(criteriaResults).criterionId = id THEN <<Head(criteriaResults)>>
    ELSE FindCriterionResult(Tail(criteriaResults), id)

allRequiredPassed_Every(config, criteriaResults) ==
    \A i \in 1..Len(config.criteria) :
        LET r == FindCriterionResult(criteriaResults, config.criteria[i].id)
        IN  r # <<>> /\ r[1].passed = TRUE

\* config.criteria.filter(c => c.required).every(...)
allRequiredPassed(config, criteriaResults) ==
    \A i \in 1..Len(config.criteria) :
        config.criteria[i].required =>
            LET r == FindCriterionResult(criteriaResults, config.criteria[i].id)
            IN  r # <<>> /\ r[1].passed = TRUE

\* The verdict of a successful analysis.
OverallPassed(analysis, config, criteriaResults) ==
    allRequiredPassed(config, criteriaResults)
    /\ analysis.overall_confidence >= config.confidenceThreshold

(***************************************************************************)
(* Inputs of the orchestrator.                                             *)
(***************************************************************************)
DefaultMaxRetries == 2

TenantIds == {"tenantA", "tenantB"}

\* The tenant whose calls are followed (t2 belongs to the other one).
CallerTenants == {"tenantA"}

TaskIds == {"t1", "t2", "t3"}

RequestedTaskIds == TaskIds \cup {"t9"}

ExternalTaskIds == {"ext1"}

TerminalStatuses == {"completed", "failed", "manual_review"}

HasProducts ==
    [id |-> "has_products", label |-> "Products visible", type |-> "boolean",
     required |-> TRUE, expectedValue |-> BoolV(TRUE),
     min |-> Undefined, max |-> Undefined]

\* The configurations of the orchestrator runs: one required boolean
\* criterion, threshold 0.8, every retry budget and both fallback policies.
OrchConfigs ==
    [prompt : {"Check the shelf"},
     criteria : {<<HasProducts>>},
     maxRetries : 0..MaxRetriesBound,
     fallbackToManual : BOOLEAN,
     confidenceThreshold : {80},
     provider : {"openai"},
     model : {"gpt-4o-mini"}]

DefaultConfig ==
    [prompt |-> "Check the shelf", criteria |-> <<HasProducts>>,
     maxRetries |-> 2, fallbackToManual |-> TRUE, confidenceThreshold |-> 80,
     provider |-> "openai", model |-> "gpt-4o-mini"]

\* The configuration a call may bring with it (override, or external mode).
OverrideConfigs ==
    {c \in OrchConfigs : c.maxRetries = 1 /\ ~c.fallbackToManual}

ProductsItem(value, confidence) ==
    [criterion_id |-> "has_products", passed |-> TRUE, value |-> BoolV(value),
     confidence |-> confidence, reasoning |-> "seen"]

\* What a provider call that succeeds may return.
OrchAnalyses ==
    {[criteria_results |-> <<ProductsItem(TRUE, 92)>>, overall_confidence |-> 92],
     [criteria_results |-> <<ProductsItem(TRUE, 50)>>, overall_confidence |-> 92],
     [criteria_results |-> <<ProductsItem(FALSE, 92)>>, overall_confidence |-> 92]}

ZeroUsage == [inputTokens |-> 0, outputTokens |-> 0]

ReportedUsage == {[inputTokens |-> 1000, outputTokens |-> 500]}

\* What a provider call that fails may throw: an empty completion, or a
\* completion that is not JSON (its first 200 characters are quoted).
ProviderErrors ==
    {"Empty response from OpenAI vision model",
     "Failed to parse model response as JSON: The shelf was not found"}

Reqs == 1..MaxReqs

(***************************************************************************)
(* State.                                                                  *)
(***************************************************************************)
VARIABLES
    tasks,          \* table tasks: id -> row
    verifications,  \* table verifications, in insertion order
    auditLog,       \* table audit_log, in insertion order
    req,            \* the verification calls: locals and position of each
    evalIn,         \* evaluator runs: the analysis and the configuration
    evalOut,        \* evaluator runs: criteriaResults and verdict, once run
    blobs,          \* blob storage: the stored images
    tenants,        \* table tenants: the slugs in use
    kv,             \* counter store of the rate limiter: window key -> entry
    clock,          \* Math.floor(Date.now() / 1000)
    checks,         \* the checkRateLimit calls: locals and position of each
    seen,           \* per window key: how many calls read a time in it
    storeFailed,    \* an operation on the counter store has failed
    cost,           \* estimateCostUsd runs: the input and the result, once run
    manifestLinks,  \* document.head: the href of each link[rel="manifest"]
    themeColor,     \* document.head: content of meta[name="theme-color"], if any
    objectUrls,     \* blob URLs created and not revoked: URL -> manifest
    revokedUrls,    \* the URLs passed to URL.revokeObjectURL, in order
    syncQueue,      \* IndexedDB store syncQueue: the items, keyed by id
    sync            \* the processSyncQueue run: locals and position

apiVars == <<blobs, tenants>>

rlVars == <<kv, clock, checks, seen, storeFailed>>

costVars == <<cost>>

pwaVars == <<manifestLinks, themeColor, objectUrls, revokedUrls>>

offlineVars == <<syncQueue, sync>>

vars == <<tasks, verifications, auditLog, req, evalIn, evalOut,
          apiVars, rlVars, costVars, pwaVars, offlineVars>>

IdleReq ==
    [pc |-> "idle", mode |-> "none", taskId |-> "", tenantId |-> "",
     config |-> DefaultConfig, maxRetries |-> 0, retryCount |-> 0,
     attempts |-> 0, analysisWithUsage |-> <<>>,
     totalTokenUsage |-> ZeroUsage, result |-> <<>>, error |-> "",
     before |-> <<>>, backoffMs |-> 0, lastError |-> <<>>, invoked |-> <<>>,
     auth |-> <<>>, body |-> <<>>, imageInput |-> <<>>, response |-> <<>>]

\* The tables as a call finds them (kept to compare with what it leaves).
Snapshot ==
    <<[tasks |-> tasks, verifications |-> verifications, auditLog |-> auditLog]>>

(***************************************************************************)
(* Cost estimator: estimateCostUsd over the static price table, and its    *)
(* two calls in runVerification.  Prices are in thousandths of a dollar    *)
(* per 1,000,000 tokens, costs in millionths of a dollar.                  *)
(***************************************************************************)
\* The keys of the MODEL_PRICING object literal.
PricedModels ==
    {"gpt-4o-mini", "gpt-4o", "gemini-2.0-flash", "gemini-2.0-flash-lite",
     "gemini-1.5-pro"}

\* Properties every object literal inherits from Object.prototype.
InheritedKeys == {"constructor", "__proto__"}

\* config.model is any string.
ModelIds == PricedModels \cup InheritedKeys \cup {"", "claude-3-haiku"}

Providers == {"openai", "gemini"}

TokenCounts == {0, 1, 2, 20, 500, 1000}

TokenUsages == [inputTokens : TokenCounts, outputTokens : TokenCounts]

Price(inputPer1M, outputPer1M) ==
    [t |-> "pricing", inputPer1M |-> inputPer1M, outputPer1M |-> outputPer1M]

\* MODEL_PRICING[model]: an own entry, an inherited member (an object with
\* no price fields), or undefined.
MODEL_PRICING(model) ==
    CASE model = "gpt-4o-mini" -> Price(150, 600)
      [] model = "gpt-4o" -> Price(2500, 10000)
      [] model = "gemini-2.0-flash" -> Price(100, 400)
      [] model = "gemini-2.0-flash-lite" -> Price(25, 100)
      [] model = "gemini-1.5-pro" -> Price(1250, 5000)
      [] model \in InheritedKeys -> [t |-> "object"]
      [] OTHER -> [t |-> "undefined"]

\* Math.round(x) for x = thousandths / 1000: the nearest integer, a half
\* goes up.
MathRound(thousandths) == (thousandths + 500) \div 1000

\* if (!pricing) return 0; an undefined price field makes the products, the
\* sum and the rounded result NaN.
estimateCostUsd(model, usage) ==
    LET pricing == MODEL_PRICING(model)
    IN  IF pricing.t = "undefined" THEN Num(0)
        ELSE IF pricing.t = "pricing"
        THEN Num(MathRound(usage.inputTokens * pricing.inputPer1M
                           + usage.outputTokens * pricing.outputPer1M))
        ELSE NaN

\* config.model || defaultModels[provider]
ResolveModel(configModel, provider) ==
    IF configModel # "" THEN configModel
    ELSE IF provider = "openai" THEN "gpt-4o-mini" ELSE "gemini-2.0-flash"

\* config.provider || 'openai'
ResolveProvider(configProvider) ==
    IF configProvider # "" THEN configProvider ELSE "openai"

\* The model of a run: config.model || defaultModels[provider]
ModelOf(config) == ResolveModel(config.model, ResolveProvider(config.provider))

\* `${provider}/${model}`
ModelUsedLabel(config) == <<ResolveProvider(config.provider), ModelOf(config)>>

(***************************************************************************)
(* runVerification.                                                        *)
(***************************************************************************)
\* const maxRetries = config.maxRetries || 2
EffectiveMaxRetries(config) ==
    IF config.maxRetries = 0 THEN DefaultMaxRetries ELSE config.maxRetries

\* The result returned when every attempt failed and fallbackToManual is set.
FallbackResult(rec) ==
    [passed |-> FALSE,
     overallConfidence |-> 0,
     criteriaResults |-> <<>>,
     modelUsed |-> ModelUsedLabel(rec.config),
     retryCount |-> rec.retryCount,
     inputTokens |-> rec.totalTokenUsage.inputTokens,
     outputTokens |-> rec.totalTokenUsage.outputTokens,
     estimatedCostUsd |-> estimateCostUsd(ModelOf(rec.config), rec.totalTokenUsage)]

\* Step 3 of runVerification: the criteria results and the verdict of a
\* successful analysis.
EvaluateAnalysis(analysis, config) ==
    LET criteriaResults == evaluateCriteria(analysis, config)
    IN  [passed |-> OverallPassed(analysis, config, criteriaResults),
         overallConfidence |-> analysis.overall_confidence,
         criteriaResults |-> criteriaResults]

\* The result of a successful analysis.
SuccessResult(rec) ==
    LET verdict == EvaluateAnalysis(rec.analysisWithUsage[1].analysis, rec.config)
    IN  [passed |-> verdict.passed,
         overallConfidence |-> verdict.overallConfidence,
         criteriaResults |-> verdict.criteriaResults,
         modelUsed |-> ModelUsedLabel(rec.config),
         retryCount |-> rec.retryCount,
         inputTokens |-> rec.totalTokenUsage.inputTokens,
         outputTokens |-> rec.totalTokenUsage.outputTokens,
         estimatedCostUsd |-> estimateCostUsd(ModelOf(rec.config), rec.totalTokenUsage)]

\* `Verification failed after ${maxRetries} retries: ${lastError?.message}`
ExhaustedError(rec) ==
    "Verification failed after " \o ToString(rec.maxRetries) \o " retries: "
        \o (IF rec.lastError = <<>> THEN "undefined" ELSE rec.lastError[1])

ExhaustedOutcome_AlwaysFallback(config) == "fallback"

\* What runVerification does when no attempt succeeded.
ExhaustedOutcome(config) ==
    IF config.fallbackToManual THEN "fallback" ELSE "throw"

\* The code after the retry loop, up to the return or throw.
AfterLoop(rec) ==
    IF rec.analysisWithUsage = <<>>
    THEN IF ExhaustedOutcome(rec.config) = "fallback"
         THEN [rec EXCEPT !.pc = "insert", !.result = <<FallbackResult(rec)>>]
         ELSE [rec EXCEPT !.pc = "error", !.error = ExhaustedError(rec)]
    ELSE [rec EXCEPT !.pc = "insert", !.result = <<SuccessResult(rec)>>]

\* while (retryCount <= maxRetries && !analysisWithUsage)
LoopTest(rec) ==
    IF rec.retryCount <= rec.maxRetries /\ rec.analysisWithUsage = <<>>
    THEN [rec EXCEPT !.pc = "attempt"]
    ELSE AfterLoop(rec)

\* Entry of runVerification: the criteria check, the locals, the first test.
RunVerificationEnter(rec) ==
    IF Len(rec.config.criteria) = 0
    THEN [rec EXCEPT !.pc = "error",
                     !.error = "Verification configuration has no criteria"]
    ELSE LoopTest([rec EXCEPT !.maxRetries = EffectiveMaxRetries(rec.config),
                              !.retryCount = 0,
                              !.lastError = <<>>,
                              !.analysisWithUsage = <<>>,
                              !.totalTokenUsage = ZeroUsage])

\* analyzeImage: the backend the switch selects and the model it passes.
analyzeImage_Backend(config) ==
    LET provider == IF config.provider # "" THEN config.provider ELSE "openai"
    IN  [backend |-> IF provider = "gemini" THEN "gemini" ELSE "openai",
         model |-> IF config.model # "" THEN config.model
                   ELSE IF provider = "gemini" THEN "gemini-2.0-flash"
                   ELSE "gpt-4o-mini"]

\* One call of analyzeImage resolves with an analysis and its token usage.
AttemptSucceeds(r, analysis, usage) ==
    /\ req[r].pc = "attempt"
    /\ LET rec == [req[r] EXCEPT
                      !.attempts = @ + 1,
                      !.invoked = <<analyzeImage_Backend(req[r].config)>>,
                      !.analysisWithUsage =
                          <<[analysis |-> analysis, tokenUsage |-> usage]>>,
                      !.totalTokenUsage =
                          [inputTokens |-> @.inputTokens + usage.inputTokens,
                           outputTokens |-> @.outputTokens + usage.outputTokens]]
       IN  req' = [req EXCEPT ![r] = LoopTest(rec)]
    /\ UNCHANGED <<tasks, verifications, auditLog, evalIn, evalOut, apiVars, rlVars, costVars,
                   pwaVars, offlineVars>>

BackoffMs_FromZero(retryCount) == 1000 * 2 ^ retryCount

\* 1000 * Math.pow(2, retryCount - 1)
BackoffMs(retryCount) == 1000 * 2 ^ (retryCount - 1)

\* One call of analyzeImage rejects: count it, then wait (setTimeout) or
\* leave the loop.
AttemptFails(r, message) ==
    /\ req[r].pc = "attempt"
    /\ LET rec == [req[r] EXCEPT !.attempts = @ + 1, !.retryCount = @ + 1,
                                 !.invoked = <<analyzeImage_Backend(req[r].config)>>,
                                 !.lastError = <<message>>]
       IN  req' = [req EXCEPT ![r] =
                      IF rec.retryCount <= rec.maxRetries
                      THEN [rec EXCEPT !.pc = "backoff",
                                       !.backoffMs = BackoffMs(rec.retryCount)]
                      ELSE LoopTest(rec)]
    /\ UNCHANGED <<tasks, verifications, auditLog, evalIn, evalOut, apiVars, rlVars, costVars,
                   pwaVars, offlineVars>>

\* The backoff timer of the retry loop fires.
BackoffElapsed(r) ==
    /\ req[r].pc = "backoff"
    /\ req' = [req EXCEPT ![r] = LoopTest(req[r])]
    /\ UNCHANGED <<tasks, verifications, auditLog, evalIn, evalOut, apiVars, rlVars, costVars,
                   pwaVars, offlineVars>>

(***************************************************************************)
(* verifyPhoto (internal mode) and verifyPhotoExternal.                    *)
(***************************************************************************)
SelectTask_AnyTenant(taskId, tenantId) ==
    IF taskId \in DOMAIN tasks THEN <<tasks[taskId]>> ELSE <<>>

\* select ... where id = taskId and tenant_id = auth.tenantId limit 1
SelectTask(taskId, tenantId) ==
    IF taskId \in DOMAIN tasks /\ tasks[taskId].tenantId = tenantId
    THEN <<tasks[taskId]>>
    ELSE <<>>

\* verifyPhoto up to the first provider call: the task lookup, the type
\* check, the choice of the configuration, the entry of runVerification.
verifyPhoto_Enter(rec0, taskId, tenantId, configOverride) ==
    LET task == SelectTask(taskId, tenantId)
        rec == [rec0 EXCEPT !.mode = "internal", !.taskId = taskId,
                            !.tenantId = tenantId, !.before = Snapshot]
    IN  IF task = <<>>
        THEN [rec EXCEPT !.pc = "error", !.error = "Task not found"]
        ELSE IF task[1].type # "photo_verify"
        THEN [rec EXCEPT !.pc = "error",
                         !.error = "Task is not a photo_verify task"]
        ELSE RunVerificationEnter(
                 [rec EXCEPT !.config =
                     IF configOverride # <<>> THEN configOverride[1]
                     ELSE task[1].photoVerificationConfig])

\* A call of verifyPhoto begins.
verifyPhoto_Begin(r, taskId, tenantId, configOverride) ==
    /\ req[r].pc = "idle"
    /\ req' = [req EXCEPT ![r] =
                  verifyPhoto_Enter(req[r], taskId, tenantId, configOverride)]
    /\ UNCHANGED <<tasks, verifications, auditLog, evalIn, evalOut, apiVars, rlVars, costVars,
                   pwaVars, offlineVars>>

\* verifyPhotoExternal up to the first provider call.
verifyPhotoExternal_Enter(rec0, externalTaskId, config, tenantId) ==
    RunVerificationEnter(
        [rec0 EXCEPT !.mode = "external", !.taskId = externalTaskId,
                     !.tenantId = tenantId, !.config = config,
                     !.before = Snapshot])

\* A call of verifyPhotoExternal begins.
verifyPhotoExternal_Begin(r, externalTaskId, config, tenantId) ==
    /\ req[r].pc = "idle"
    /\ req' = [req EXCEPT ![r] =
                  verifyPhotoExternal_Enter(req[r], externalTaskId, config,
                                            tenantId)]
    /\ UNCHANGED <<tasks, verifications, auditLog, evalIn, evalOut, apiVars, rlVars, costVars,
                   pwaVars, offlineVars>>

\* The row both handlers insert into verifications.
VerificationRow(rec) ==
    LET result == rec.result[1]
    IN  [taskId |-> IF rec.mode = "internal" THEN <<rec.taskId>> ELSE <<>>,
         externalTaskId |-> IF rec.mode = "external" THEN <<rec.taskId>> ELSE <<>>,
         tenantId |-> rec.tenantId,
         passed |-> result.passed,
         overallConfidence |-> result.overallConfidence,
         criteriaResults |-> result.criteriaResults,
         configUsed |-> rec.config,
         modelUsed |-> result.modelUsed,
         inputTokens |-> result.inputTokens,
         outputTokens |-> result.outputTokens,
         estimatedCostUsd |-> result.estimatedCostUsd,
         retryCount |-> result.retryCount]

\* await db.insert(schema.verifications)
InsertVerification(r) ==
    /\ req[r].pc = "insert"
    /\ verifications' = Append(verifications, VerificationRow(req[r]))
    /\ req' = [req EXCEPT ![r].pc =
                  IF req[r].mode = "internal" THEN "update" ELSE "audit"]
    /\ UNCHANGED <<tasks, auditLog, evalIn, evalOut, apiVars, rlVars, costVars,
                   pwaVars, offlineVars>>

NewStatus_FallbackSwapped(passed, config) ==
    IF passed THEN "completed"
    ELSE IF config.fallbackToManual THEN "failed" ELSE "manual_review"

\* result.passed ? 'completed' : (fallbackToManual ? 'manual_review' : 'failed')
NewStatus(passed, config) ==
    IF passed THEN "completed"
    ELSE IF config.fallbackToManual THEN "manual_review" ELSE "failed"

\* await db.update(schema.tasks).set({status}).where(id = taskId)
UpdateTaskStatus(r) ==
    /\ req[r].pc = "update"
    /\ tasks' = [t \in DOMAIN tasks |->
                    IF t = req[r].taskId
                    THEN [tasks[t] EXCEPT !.status =
                             NewStatus(req[r].result[1].passed, req[r].config)]
                    ELSE tasks[t]]
    /\ req' = [req EXCEPT ![r].pc = "audit"]
    /\ UNCHANGED <<verifications, auditLog, evalIn, evalOut, apiVars, rlVars, costVars,
                   pwaVars, offlineVars>>

\* The row both handlers insert into audit_log.
AuditRow(rec) ==
    LET result == rec.result[1]
    IN  [tenantId |-> rec.tenantId,
         action |-> "photo_verified",
         entityType |-> IF rec.mode = "internal" THEN "task" ELSE "external_task",
         entityId |-> rec.taskId,
         details |-> [mode |-> rec.mode,
                      passed |-> result.passed,
                      confidence |-> result.overallConfidence,
                      modelUsed |-> result.modelUsed,
                      inputTokens |-> result.inputTokens,
                      outputTokens |-> result.outputTokens,
                      estimatedCostUsd |-> result.estimatedCostUsd,
                      retryCount |-> result.retryCount]]

\* await db.insert(schema.auditLog), then return result
InsertAudit(r) ==
    /\ req[r].pc = "audit"
    /\ auditLog' = Append(auditLog, AuditRow(req[r]))
    /\ req' = [req EXCEPT ![r].pc = "done"]
    /\ UNCHANGED <<tasks, verifications, evalIn, evalOut, apiVars, rlVars, costVars,
                   pwaVars, offlineVars>>

\* The message a failed provider call carries in the calls Spec follows.
OrchErrors == {"Empty response from OpenAI vision model"}

(***************************************************************************)
(* The orchestrator, one call at a time: Spec follows calls that do not    *)
(* overlap, each from its first step to its return or throw.               *)
(***************************************************************************)
InitialTasks(config) ==
    [t \in TaskIds |->
        [tenantId |-> IF t = "t2" THEN "tenantB" ELSE "tenantA",
         type |-> IF t = "t3" THEN "survey" ELSE "photo_verify",
         status |-> "pending",
         photoVerificationConfig |-> IF t = "t1" THEN config ELSE DefaultConfig]]

IdleEval ==
    [analysis |-> [criteria_results |-> <<>>, overall_confidence |-> 0],
     config |-> DefaultConfig]

\* The parts of the state a specification does not exercise stay as they
\* are here.
IdleApi ==
    /\ blobs = {}
    /\ tenants = {"tenant-a", "tenant-b"}

IdleRateLimit ==
    /\ kv = [k \in {} |-> 0]
    /\ clock = 0
    /\ checks = <<>>
    /\ seen = <<>>
    /\ storeFailed = FALSE

IdleCost == cost = <<>>

IdlePwa ==
    /\ manifestLinks = <<>>
    /\ themeColor = <<>>
    /\ objectUrls = [u \in {} |-> 0]
    /\ revokedUrls = <<>>

\* No run of processSyncQueue has begun and nothing has been queued: now is
\* the last value Date.now() returned to queueMissionCompletion, pending
\* and i are the array and the position of the for loop, outcome and
\* removed record what syncFn and removeSyncItem did in the run.
IdleSync ==
    [now |-> 0, pc |-> "idle", pending |-> <<>>, i |-> 0, synced |-> 0,
     outcome |-> [id \in {} |-> ""], removed |-> {}]

IdleOffline ==
    /\ syncQueue = [id \in {} |-> 0]
    /\ sync = IdleSync

Init ==
    /\ \E config \in OrchConfigs : tasks = InitialTasks(config)
    /\ verifications = <<>>
    /\ auditLog = <<>>
    /\ req = [r \in Reqs |-> IdleReq]
    /\ evalIn = IdleEval
    /\ evalOut = <<>>
    /\ IdleApi /\ IdleRateLimit /\ IdleCost /\ IdlePwa /\ IdleOffline

\* Calls are numbered in the order they arrive, and call r runs alone:
\* the calls before it have ended and the calls after it have not begun.
RunsAlone(r) ==
    /\ \A q \in Reqs : q < r =>
          req[q].pc \in {"done", "error", "responded", "aborted"}
    /\ \A q \in Reqs : q > r => req[q].pc = "idle"

Next ==
    \/ \E r \in Reqs, taskId \in RequestedTaskIds, tenantId \in CallerTenants,
          configOverride \in {<<>>} \cup {<<c>> : c \in OverrideConfigs} :
           RunsAlone(r) /\ verifyPhoto_Begin(r, taskId, tenantId, configOverride)
    \/ \E r \in Reqs, externalTaskId \in ExternalTaskIds,
          config \in OverrideConfigs, tenantId \in CallerTenants :
           RunsAlone(r) /\ verifyPhotoExternal_Begin(r, externalTaskId, config, tenantId)
    \/ \E r \in Reqs, analysis \in OrchAnalyses, usage \in ReportedUsage :
           RunsAlone(r) /\ AttemptSucceeds(r, analysis, usage)
    \/ \E r \in Reqs, message \in OrchErrors :
           RunsAlone(r) /\ AttemptFails(r, message)
    \/ \E r \in Reqs : RunsAlone(r) /\ BackoffElapsed(r)
    \/ \E r \in Reqs : RunsAlone(r) /\ InsertVerification(r)
    \/ \E r \in Reqs : RunsAlone(r) /\ UpdateTaskStatus(r)
    \/ \E r \in Reqs : RunsAlone(r) /\ InsertAudit(r)

Spec == Init /\ [][Next]_vars

(***************************************************************************)
(* The evaluator on its own: inputs drawn from bounded sets.               *)
(***************************************************************************)
CriterionTypes == {"boolean", "count", "text"}

CriterionIds == <<"a", "b", "c", "d", "e">>

LabelOf(id) ==
    CASE id = "a" -> "Label A" [] id = "b" -> "Label B" [] id = "c" -> "Label C"
      [] OTHER -> "Label"

\* Every shape of the criterion under study (id "a").
StudiedCriteria ==
    [id : {"a"}, label : {LabelOf("a")}, type : CriterionTypes,
     required : BOOLEAN,
     expectedValue : {Undefined, BoolV(TRUE)},
     min : {Undefined, NumV(5)},
     max : {Undefined, NumV(10)}]

\* The criteria configured next to it: text criteria, required or optional.
OtherCriteria(id) ==
    [id : {id}, label : {LabelOf(id)}, type : {"text"}, required : BOOLEAN,
     expectedValue : {Undefined}, min : {Undefined}, max : {Undefined}]

\* Criteria lists of length n with pairwise distinct ids: the studied
\* criterion at position p, the others with ids b, c, ... in order.
CriteriaLists(n) ==
    UNION {
        {cs \in [1..n -> StudiedCriteria \cup
                          UNION {OtherCriteria(CriterionIds[k]) : k \in 2..n}] :
            /\ cs[p] \in StudiedCriteria
            /\ \A i \in 1..n : i < p => cs[i] \in OtherCriteria(CriterionIds[i + 1])
            /\ \A i \in 1..n : i > p => cs[i] \in OtherCriteria(CriterionIds[i])}
        : p \in 1..n}

EvalConfigs ==
    UNION {[prompt : {"Check the shelf"},
            criteria : CriteriaLists(n),
            maxRetries : {2},
            fallbackToManual : {TRUE},
            confidenceThreshold : {80}] : n \in 1..MaxCriteria}

ObservedValues ==
    {BoolV(TRUE), BoolV(FALSE), NumV(4), NumV(12),
     StrV(<<"4">>), StrV(<<"1", "2", " ", "u">>), StrV(<<"n", "o">>)}

Confidences == {50, 80}

\* What the provider may report for the studied criterion.
StudiedItems ==
    [criterion_id : {"a"}, passed : BOOLEAN, value : ObservedValues,
     confidence : Confidences, reasoning : {"seen"}]

\* Other entries of the provider: for a, for b, and for an id no
\* configuration has.
OtherItems ==
    [criterion_id : {"b"}, passed : BOOLEAN, value : {StrV(<<"o", "k">>)},
     confidence : {92}, reasoning : {"other"}]
    \cup
    [criterion_id : {"a", "x"}, passed : {TRUE}, value : {StrV(<<"o", "k">>)},
     confidence : {92}, reasoning : {"other"}]

\* Provider lists of length n with at most one entry from StudiedItems.
ResultLists(n) ==
    {rs \in [1..n -> StudiedItems \cup OtherItems] :
        \A i, j \in 1..n : (rs[i] \in StudiedItems /\ rs[j] \in StudiedItems) => i = j}

EvalAnalyses ==
    UNION {[criteria_results : ResultLists(n), overall_confidence : {50, 80}]
           : n \in 0..MaxResults}

InitEval ==
    /\ tasks = InitialTasks(DefaultConfig)
    /\ verifications = <<>>
    /\ auditLog = <<>>
    /\ req = [r \in Reqs |-> IdleReq]
    /\ evalIn \in [analysis : {IdleEval.analysis}, config : EvalConfigs]
    /\ evalOut = <<>>
    /\ IdleApi /\ IdleRateLimit /\ IdleCost /\ IdlePwa /\ IdleOffline

\* The provider's analysis arrives and step 3 of runVerification runs on it.
Evaluate(analysis) ==
    /\ evalOut = <<>>
    /\ evalIn' = [evalIn EXCEPT !.analysis = analysis]
    /\ evalOut' = <<EvaluateAnalysis(analysis, evalIn.config)>>
    /\ UNCHANGED <<tasks, verifications, auditLog, req, apiVars, rlVars, costVars,
                   pwaVars, offlineVars>>

NextEval ==
    /\ evalOut = <<>>
    /\ \E analysis \in EvalAnalyses : Evaluate(analysis)

SpecEval == InitEval /\ [][NextEval]_vars

(***************************************************************************)
(* POST /api/verify: the route handler around the two verification calls.  *)
(***************************************************************************)
MaxAuditRows == 2

\* The route is followed for one request at a time from its arrival to its
\* response; what requests share is the tables.
ApiReqs == {1}

Roles == {"admin", "operator", "viewer"}

\* What authenticate(request) resolves to: no context (answered 401) or the
\* context of the token.
AuthResults ==
    {<<>>} \cup {<<a>> : a \in [tenantId : CallerTenants, role : Roles]}

\* Request bodies of POST /api/verify: every combination of present and
\* absent fields.
VerifyBodies ==
    [taskId : {<<>>, <<"t1">>, <<"t2">>},
     externalTaskId : {<<>>, <<"ext1">>},
     imageUrl : {<<>>, <<"https://cdn.example/photo.jpg">>},
     imageBase64 : {<<>>, <<"AAAA">>},
     config : {<<>>} \cup {<<c>> : c \in OverrideConfigs}]

\* Truthiness of an optional string: present and not empty.
Truthy(field) == field # <<>> /\ field[1] # ""

VerifyRequestValid_NoImageRule(body) ==
    /\ Truthy(body.taskId) \/ Truthy(body.externalTaskId)
    /\ ~(Truthy(body.externalTaskId) /\ body.config = <<>>)

\* VerifyRequestSchema.safeParse(body).success: the three refinements.
VerifyRequestValid(body) ==
    /\ Truthy(body.imageUrl) \/ Truthy(body.imageBase64)
    /\ Truthy(body.taskId) \/ Truthy(body.externalTaskId)
    /\ ~(Truthy(body.externalTaskId) /\ body.config = <<>>)

\* A response built by the handler itself.
ErrorResponse(status, code) ==
    <<[status |-> status, success |-> FALSE, code |-> code]>>

Rejected(rec, status, code) ==
    [rec EXCEPT !.pc = "responded", !.response = ErrorResponse(status, code)]

\* taskId || externalTaskId || requestId
ReferenceId(body) ==
    IF Truthy(body.taskId) THEN body.taskId[1]
    ELSE IF Truthy(body.externalTaskId) THEN body.externalTaskId[1]
    ELSE "requestId"

\* The object uploadBase64Image stores for a request.
Blob(tenantId, referenceId) == [tenantId |-> tenantId, referenceId |-> referenceId]

BlobUrl(tenantId, referenceId) == <<"blob", tenantId, referenceId>>

\* Step 5 of the handler: finalImageInput.
FinalImageInput(body, tenantId, uploaded) ==
    IF Truthy(body.imageBase64)
    THEN IF uploaded
         THEN [url |-> <<BlobUrl(tenantId, ReferenceId(body))>>, base64 |-> <<>>]
         ELSE [url |-> <<>>, base64 |-> body.imageBase64]
    ELSE [url |-> body.imageUrl, base64 |-> <<>>]

\* PhotoVerificationConfigSchema: the defaults of provider and model.
ParseConfig(config) ==
    [config EXCEPT
        !.provider = IF @ = "" THEN "openai" ELSE @,
        !.model = IF @ = "" THEN "gpt-4o-mini" ELSE @]

\* parsed.data.config: the optional configuration as the schema returns it.
ParsedConfig(body) ==
    IF body.config = <<>> THEN <<>> ELSE <<ParseConfig(body.config[1])>>

RunMode_ExternalFirst(rec, body, tenantId) ==
    IF Truthy(body.externalTaskId) /\ body.config # <<>>
    THEN verifyPhotoExternal_Enter(rec, body.externalTaskId[1],
                                   ParsedConfig(body)[1], tenantId)
    ELSE IF Truthy(body.taskId)
    THEN verifyPhoto_Enter(rec, body.taskId[1], tenantId, ParsedConfig(body))
    ELSE Rejected(rec, 400, "VALIDATION_ERROR")

\* Step 6 of the handler: the mode, up to the first provider call.
RunMode(rec, body, tenantId) ==
    IF Truthy(body.taskId)
    THEN verifyPhoto_Enter(rec, body.taskId[1], tenantId, ParsedConfig(body))
    ELSE IF Truthy(body.externalTaskId) /\ body.config # <<>>
    THEN verifyPhotoExternal_Enter(rec, body.externalTaskId[1],
                                   ParsedConfig(body)[1], tenantId)
    ELSE Rejected(rec, 400, "VALIDATION_ERROR")

\* The handler from its entry to the first provider call (or to its early
\* response).  limited: rateLimitMiddleware answered 429; uploadFails:
\* uploadBase64Image threw.
POST_verify(r, auth, limited, body, uploadFails) ==
    /\ req[r].pc = "idle"
    /\ LET rec0 == [req[r] EXCEPT !.auth = auth]
           rec1 == [rec0 EXCEPT !.body = <<body>>]
           parsed == auth # <<>> /\ ~limited /\ VerifyRequestValid(body)
           uploaded == parsed /\ Truthy(body.imageBase64) /\ ~uploadFails
       IN  /\ req' = [req EXCEPT ![r] =
                 IF auth = <<>> THEN Rejected(rec0, 401, "UNAUTHORIZED")
                 ELSE IF limited THEN Rejected(rec0, 429, "RATE_LIMITED")
                 ELSE IF ~VerifyRequestValid(body)
                 THEN Rejected(rec1, 400, "VALIDATION_ERROR")
                 ELSE RunMode(
                          [rec1 EXCEPT !.imageInput =
                              <<FinalImageInput(body, auth[1].tenantId, uploaded)>>],
                          body, auth[1].tenantId)]
           /\ blobs' = IF uploaded
                       THEN blobs \cup {Blob(auth[1].tenantId, ReferenceId(body))}
                       ELSE blobs
    /\ UNCHANGED <<tasks, verifications, auditLog, evalIn, evalOut, tenants,
                   rlVars, costVars,
                   pwaVars, offlineVars>>

\* What a failed database write may report.
DbErrorMessages ==
    {"Connection terminated", "canceling statement due to statement timeout"}

\* message.includes(part)
Includes(message, part) ==
    \E i \in 1..(Len(message) - Len(part) + 1) :
        SubSeq(message, i, i + Len(part) - 1) = part

\* message.includes('not found')
IncludesNotFound(message) == Includes(message, "not found")

AfterWriteFailure_AuditSwallowed(rec, message) ==
    IF rec.pc = "audit" THEN [rec EXCEPT !.pc = "done"]
    ELSE [rec EXCEPT !.pc = "error", !.error = message]

\* An awaited write rejects: nothing catches it before the route handler.
AfterWriteFailure(rec, message) ==
    [rec EXCEPT !.pc = "error", !.error = message]

\* The insert into verifications, the update of tasks or the insert into
\* audit_log rejects.
DbWriteFails(r, message) ==
    /\ req[r].pc \in {"insert", "update", "audit"}
    /\ req' = [req EXCEPT ![r] = AfterWriteFailure(req[r], message)]
    /\ UNCHANGED <<tasks, verifications, auditLog, evalIn, evalOut, apiVars,
                   rlVars, costVars,
                   pwaVars, offlineVars>>

\* The function is stopped at maxDuration (or the caller went away): the
\* handler does not run any further.
RequestTimesOut(r) ==
    /\ req[r].pc \in {"attempt", "backoff", "insert", "update", "audit"}
    /\ req' = [req EXCEPT ![r].pc = "aborted"]
    /\ UNCHANGED <<tasks, verifications, auditLog, evalIn, evalOut, apiVars,
                   rlVars, costVars,
                   pwaVars, offlineVars>>

\* Steps 7 and the catch block: the response of a request that ran a
\* verification (none while it runs, none from a stopped function).
Response(rec) ==
    CASE rec.pc = "responded" -> rec.response
      [] rec.pc = "done" -> <<[status |-> 200, success |-> TRUE, code |-> ""]>>
      [] rec.pc = "error" ->
            IF IncludesNotFound(rec.error)
            THEN ErrorResponse(404, "NOT_FOUND")
            ELSE ErrorResponse(500, "INTERNAL_ERROR")
      [] OTHER -> <<>>

\* Step 7: what the handler adds to the result of a finished verification,
\* mode: taskId ? 'internal' : 'external' and taskReference: taskId ||
\* externalTaskId.
ResponseData(rec) ==
    LET body == rec.body[1]
    IN  [mode |-> IF Truthy(body.taskId) THEN "internal" ELSE "external",
         taskReference |-> IF Truthy(body.taskId) THEN body.taskId
                           ELSE body.externalTaskId]

\* No request is being handled.
Quiet == \A r \in Reqs : req[r].pc \in {"idle", "responded", "done", "error", "aborted"}

(***************************************************************************)
(* The one-step handlers: upload, task create / update / delete, tenant    *)
(* create and the reads.  Each runs while no verification is in flight.    *)
(***************************************************************************)
\* requireRole(auth, ...roles) returns no error.
HasRole(auth, roles) == auth[1].role \in roles

AllowedTypes == {"image/jpeg", "image/png", "image/webp", "image/heic"}

UploadFiles == {<<>>, <<[type |-> "image/jpeg"]>>, <<[type |-> "text/plain"]>>}

\* POST /api/upload
POST_upload(auth, limited, file, taskId, uploadFails) ==
    /\ Quiet
    /\ blobs' = IF /\ auth # <<>>
                   /\ ~limited
                   /\ file # <<>>
                   /\ Truthy(taskId)
                   /\ file[1].type \in AllowedTypes
                   /\ ~uploadFails
                THEN blobs \cup {Blob(auth[1].tenantId, taskId[1])}
                ELSE blobs
    /\ UNCHANGED <<tasks, verifications, auditLog, req, evalIn, evalOut,
                   tenants, rlVars, costVars,
                   pwaVars, offlineVars>>

\* The ids the database may give to a created task.
FreshTaskIds == {"t4"}

ApiAuditRow(auth, action, entityType, entityId) ==
    [tenantId |-> auth[1].tenantId, action |-> action,
     entityType |-> entityType, entityId |-> entityId]

\* POST /api/tasks
POST_tasks(auth, limited, config, id) ==
    /\ Quiet
    /\ id \notin DOMAIN tasks
    /\ Len(auditLog) < MaxAuditRows
    /\ IF auth # <<>> /\ HasRole(auth, {"admin", "operator"}) /\ ~limited
          /\ config # <<>>
       THEN /\ tasks' = [t \in DOMAIN tasks \cup {id} |->
                           IF t = id
                           THEN [tenantId |-> auth[1].tenantId,
                                 type |-> "photo_verify",
                                 status |-> "pending",
                                 photoVerificationConfig |-> config[1]]
                           ELSE tasks[t]]
            /\ auditLog' = Append(auditLog,
                               ApiAuditRow(auth, "task_created", "task", id))
       ELSE UNCHANGED <<tasks, auditLog>>
    /\ UNCHANGED <<verifications, req, evalIn, evalOut, apiVars, rlVars,
                   costVars,
                   pwaVars, offlineVars>>

\* PUT /api/tasks/[id] with a status in the body
PUT_task(auth, id, status) ==
    /\ Quiet
    /\ tasks' = [t \in DOMAIN tasks |->
                    IF /\ auth # <<>>
                       /\ HasRole(auth, {"admin", "operator"})
                       /\ t = id
                       /\ tasks[t].tenantId = auth[1].tenantId
                    THEN [tasks[t] EXCEPT !.status = status]
                    ELSE tasks[t]]
    /\ UNCHANGED <<verifications, auditLog, req, evalIn, evalOut, apiVars,
                   rlVars, costVars,
                   pwaVars, offlineVars>>

\* verifications.task_id references tasks.id on delete cascade
VerificationsWithoutTask(id) ==
    SelectSeq(verifications, LAMBDA v : v.taskId # <<id>>)

AuditLogAfterDelete_Cascade(auth, id) ==
    Append(SelectSeq(auditLog, LAMBDA a : a.entityId # id),
           ApiAuditRow(auth, "task_deleted", "task", id))

\* audit_log has no reference to tasks: the delete leaves it, the handler
\* adds its own entry.
AuditLogAfterDelete(auth, id) ==
    Append(auditLog, ApiAuditRow(auth, "task_deleted", "task", id))

\* DELETE /api/tasks/[id]
DELETE_task(auth, id) ==
    /\ Quiet
    /\ Len(auditLog) < MaxAuditRows
    /\ IF /\ auth # <<>>
          /\ HasRole(auth, {"admin"})
          /\ id \in DOMAIN tasks
          /\ tasks[id].tenantId = auth[1].tenantId
       THEN /\ tasks' = [t \in DOMAIN tasks \ {id} |-> tasks[t]]
            /\ verifications' = VerificationsWithoutTask(id)
            /\ auditLog' = AuditLogAfterDelete(auth, id)
       ELSE UNCHANGED <<tasks, verifications, auditLog>>
    /\ UNCHANGED <<req, evalIn, evalOut, apiVars, rlVars, costVars,
                   pwaVars, offlineVars>>

TenantSlugs == {"tenant-a", "tenant-c"}

\* POST /api/tenants
POST_tenants(auth, slug) ==
    /\ Quiet
    /\ Len(auditLog) < MaxAuditRows
    /\ IF auth # <<>> /\ HasRole(auth, {"admin"}) /\ slug \notin tenants
       THEN /\ tenants' = tenants \cup {slug}
            /\ auditLog' = Append(auditLog,
                               ApiAuditRow(auth, "tenant_created", "tenant", slug))
       ELSE UNCHANGED <<tenants, auditLog>>
    /\ UNCHANGED <<tasks, verifications, req, evalIn, evalOut, blobs, rlVars,
                   costVars,
                   pwaVars, offlineVars>>

\* GET /api/tasks, /api/tasks/[id], /api/verifications, /api/billing,
\* /api/tenants: selects only.
GET_read(auth) ==
    /\ Quiet
    /\ UNCHANGED vars

(***************************************************************************)
(* The API, one request at a time.                                         *)
(***************************************************************************)
InitApi ==
    /\ tasks = InitialTasks(DefaultConfig)
    /\ verifications = <<>>
    /\ auditLog = <<>>
    /\ req = [r \in Reqs |-> IdleReq]
    /\ evalIn = IdleEval
    /\ evalOut = <<>>
    /\ IdleApi /\ IdleRateLimit /\ IdleCost /\ IdlePwa /\ IdleOffline

NextApi ==
    \/ \E r \in ApiReqs, auth \in AuthResults, limited \in BOOLEAN,
          body \in VerifyBodies, uploadFails \in BOOLEAN :
           RunsAlone(r) /\ POST_verify(r, auth, limited, body, uploadFails)
    \/ \E r \in ApiReqs, analysis \in OrchAnalyses, usage \in ReportedUsage :
           RunsAlone(r) /\ AttemptSucceeds(r, analysis, usage)
    \/ \E r \in ApiReqs, message \in ProviderErrors :
           RunsAlone(r) /\ AttemptFails(r, message)
    \/ \E r \in ApiReqs : RunsAlone(r) /\ BackoffElapsed(r)
    \/ \E r \in ApiReqs : RunsAlone(r) /\ InsertVerification(r)
    \/ \E r \in ApiReqs : RunsAlone(r) /\ UpdateTaskStatus(r)
    \/ \E r \in ApiReqs : RunsAlone(r) /\ InsertAudit(r)
    \/ \E r \in ApiReqs, message \in DbErrorMessages :
           RunsAlone(r) /\ DbWriteFails(r, message)
    \/ \E r \in ApiReqs : RunsAlone(r) /\ RequestTimesOut(r)
    \/ \E auth \in AuthResults, limited \in BOOLEAN, file \in UploadFiles,
          taskId \in {<<>>, <<"t1">>}, uploadFails \in BOOLEAN :
           POST_upload(auth, limited, file, taskId, uploadFails)

SpecApi == InitApi /\ [][NextApi]_vars

(***************************************************************************)
(* The operations that write the audit log, one request at a time.         *)
(***************************************************************************)
NextAudit ==
    \/ \E r \in ApiReqs, taskId \in RequestedTaskIds, tenantId \in CallerTenants :
           RunsAlone(r) /\ verifyPhoto_Begin(r, taskId, tenantId, <<>>)
    \/ \E r \in ApiReqs, externalTaskId \in ExternalTaskIds,
          config \in OverrideConfigs, tenantId \in CallerTenants :
           RunsAlone(r) /\ verifyPhotoExternal_Begin(r, externalTaskId, config, tenantId)
    \/ \E r \in ApiReqs, analysis \in OrchAnalyses, usage \in ReportedUsage :
           RunsAlone(r) /\ AttemptSucceeds(r, analysis, usage)
    \/ \E r \in ApiReqs, message \in ProviderErrors :
           RunsAlone(r) /\ AttemptFails(r, message)
    \/ \E r \in ApiReqs : RunsAlone(r) /\ BackoffElapsed(r)
    \/ \E r \in ApiReqs : RunsAlone(r) /\ InsertVerification(r)
    \/ \E r \in ApiReqs : RunsAlone(r) /\ UpdateTaskStatus(r)
    \/ \E r \in ApiReqs : RunsAlone(r) /\ InsertAudit(r)
    \/ \E r \in ApiReqs, message \in DbErrorMessages :
           RunsAlone(r) /\ DbWriteFails(r, message)
    \/ \E auth \in AuthResults, limited \in BOOLEAN,
          config \in {<<>>} \cup {<<c>> : c \in OverrideConfigs},
          id \in FreshTaskIds :
           POST_tasks(auth, limited, config, id)
    \/ \E auth \in AuthResults, id \in RequestedTaskIds,
          status \in {"in_progress"} :
           PUT_task(auth, id, status)
    \/ \E auth \in AuthResults, id \in RequestedTaskIds : DELETE_task(auth, id)
    \/ \E auth \in AuthResults, slug \in TenantSlugs : POST_tenants(auth, slug)
    \/ \E auth \in AuthResults : GET_read(auth)

SpecAudit == InitApi /\ [][NextAudit]_vars

(***************************************************************************)
(* The retry loop on its own: one external-mode call, every accepted       *)
(* value of maxRetries in the studied range.                               *)
(***************************************************************************)
\* maxRetries: z.number().default(2), so also negative numbers.
RetryConfigs ==
    [prompt : {"Check the shelf"},
     criteria : {<<HasProducts>>},
     maxRetries : (0 - 1)..(MaxRetriesBound + 1),
     fallbackToManual : BOOLEAN,
     confidenceThreshold : {80},
     provider : {"", "gemini"},
     model : {"", "gpt-4o", "constructor"}]

\* What each provider call may report as its token usage.
RetryUsage ==
    {[inputTokens |-> 1000, outputTokens |-> 500],
     [inputTokens |-> 1200, outputTokens |-> 40]}

RetryAnalyses ==
    {[criteria_results |-> <<ProductsItem(TRUE, 92)>>, overall_confidence |-> 92],
     [criteria_results |-> <<ProductsItem(FALSE, 92)>>, overall_confidence |-> 92]}

NextRetry ==
    \/ \E r \in ApiReqs, externalTaskId \in ExternalTaskIds,
          config \in RetryConfigs, tenantId \in CallerTenants :
           verifyPhotoExternal_Begin(r, externalTaskId, config, tenantId)
    \/ \E r \in ApiReqs, analysis \in RetryAnalyses, usage \in RetryUsage :
           AttemptSucceeds(r, analysis, usage)
    \/ \E r \in ApiReqs, message \in ProviderErrors :
           AttemptFails(r, message)
    \/ \E r \in ApiReqs : BackoffElapsed(r)
    \/ \E r \in ApiReqs : InsertVerification(r)
    \/ \E r \in ApiReqs : InsertAudit(r)

SpecRetry == InitApi /\ [][NextRetry]_vars

(***************************************************************************)
(* Provider and model resolution: configurations with or without provider *)
(* and model, through POST /api/verify and passed directly.                *)
(***************************************************************************)
ResolveConfigs ==
    [prompt : {"Check the shelf"},
     criteria : {<<HasProducts>>},
     maxRetries : {1},
     fallbackToManual : {TRUE},
     confidenceThreshold : {80},
     provider : {"", "openai", "gemini"},
     model : {"", "gpt-4o", "gemini-1.5-pro"}]

ResolveBodies ==
    [taskId : {<<>>, <<"t1">>}, externalTaskId : {<<>>, <<"ext1">>},
     imageUrl : {<<"https://cdn.example/photo.jpg">>}, imageBase64 : {<<>>},
     config : {<<c>> : c \in ResolveConfigs}]

NextResolve ==
    \/ \E r \in ApiReqs, body \in ResolveBodies :
           POST_verify(r, <<[tenantId |-> "tenantA", role |-> "operator"]>>,
                       FALSE, body, FALSE)
    \/ \E r \in ApiReqs, externalTaskId \in ExternalTaskIds,
          config \in ResolveConfigs, tenantId \in CallerTenants :
           verifyPhotoExternal_Begin(r, externalTaskId, config, tenantId)
    \/ \E r \in ApiReqs, analysis \in RetryAnalyses, usage \in ReportedUsage :
           AttemptSucceeds(r, analysis, usage)
    \/ \E r \in ApiReqs, message \in ProviderErrors :
           AttemptFails(r, message)
    \/ \E r \in ApiReqs : BackoffElapsed(r)
    \/ \E r \in ApiReqs : InsertVerification(r)
    \/ \E r \in ApiReqs : UpdateTaskStatus(r)
    \/ \E r \in ApiReqs : InsertAudit(r)

SpecResolve == InitApi /\ [][NextResolve]_vars

(***************************************************************************)
(* Rate limiter: checkRateLimit and rateLimitMiddleware over the counter   *)
(* store (incr and expire with time-to-live), with the clock.              *)
(***************************************************************************)
MaxCallsPerWindow == 4

MaxClock == 3

\* One call of checkRateLimit is followed at a time.
CheckSlots == {1}

\* `${tenantId}:${endpoint}`
RateLimitKeys == {"tenantA:verify"}

RateLimitConfigs == [maxRequests : {1, 3}, windowSeconds : {2}]

\* Math.floor(now / config.windowSeconds)
WindowIndex(now, config) == now \div config.windowSeconds

\* `rl:${key}:${window}`
WindowKey(key, now, config) == <<"rl", key, WindowIndex(now, config)>>

WindowKeys ==
    {<<"rl", key, w>> : key \in RateLimitKeys, w \in 0..(MaxClock + 1)}

NoExpiry == 0 - 1

\* INCR: the entry after the increment (a missing key counts from 0 and has
\* no time-to-live).
Incr(wk) ==
    [k \in DOMAIN kv \cup {wk} |->
        IF k = wk
        THEN IF wk \in DOMAIN kv
             THEN [kv[wk] EXCEPT !.count = @ + 1]
             ELSE [count |-> 1, expireAt |-> NoExpiry]
        ELSE kv[k]]

\* EXPIRE key seconds: the time-to-live runs from the moment of the command.
Expire(wk, seconds) ==
    [k \in DOMAIN kv |->
        IF k = wk THEN [kv[k] EXCEPT !.expireAt = clock + seconds] ELSE kv[k]]

\* The entries still alive at time t.
Alive(store, t) ==
    LET keep == {k \in DOMAIN store :
                    store[k].expireAt = NoExpiry \/ store[k].expireAt > t}
    IN  [k \in keep |-> store[k]]

Max0(n) == IF n < 0 THEN 0 ELSE n

\* The value returned at the end of the try block.
CheckResult(count, now, config) ==
    [allowed |-> count <= config.maxRequests,
     remaining |-> Max0(config.maxRequests - count),
     resetAt |-> (WindowIndex(now, config) + 1) * config.windowSeconds]

CatchResult_FailClosed(count, now, config) ==
    [allowed |-> FALSE, remaining |-> 0, resetAt |-> 0]

\* The value returned by the catch block.
CatchResult(count, now, config) ==
    [allowed |-> TRUE, remaining |-> 0 - 1, resetAt |-> 0]

\* rateLimitMiddleware: a 429 response when the check disallows, else null.
MiddlewareResponse(result) ==
    IF ~result.allowed THEN ErrorResponse(429, "RATE_LIMITED") ELSE <<>>

IdleCheck(config) ==
    [pc |-> "idle", key |-> "", config |-> config, now |-> 0, count |-> 0,
     result |-> <<>>, response |-> <<>>,
     nth |-> 0, storeOps |-> 0, failedOp |-> ""]

Returned(rec, result) ==
    [rec EXCEPT !.pc = "returned", !.result = <<result>>,
                !.response = MiddlewareResponse(result)]

\* rateLimitMiddleware(tenantId, endpoint, config) is called: the key and
\* the clock are read.  nth counts the calls of this key and window.
BeginCheck(c, key) ==
    /\ checks[c].pc \in {"idle", "returned"}
    /\ LET wk == WindowKey(key, clock, checks[c].config)
       IN  /\ seen[wk] < MaxCallsPerWindow
           /\ seen' = [seen EXCEPT ![wk] = @ + 1]
           /\ checks' = [checks EXCEPT ![c] =
                  [IdleCheck(checks[c].config) EXCEPT
                      !.pc = "incr", !.key = key, !.now = clock,
                      !.nth = seen[wk] + 1]]
    /\ UNCHANGED <<kv, clock, storeFailed>>
    /\ UNCHANGED <<tasks, verifications, auditLog, req, evalIn, evalOut,
                   apiVars, costVars,
                   pwaVars, offlineVars>>

\* await kv.incr(windowKey) resolves.
IncrSucceeds(c) ==
    /\ checks[c].pc = "incr"
    /\ LET rec == checks[c]
           wk == WindowKey(rec.key, rec.now, rec.config)
           count == Incr(wk)[wk].count
           rec1 == [rec EXCEPT !.count = count, !.storeOps = @ + 1]
       IN  /\ kv' = Incr(wk)
           /\ checks' = [checks EXCEPT ![c] =
                  IF count = 1 THEN [rec1 EXCEPT !.pc = "expire"]
                  ELSE Returned(rec1, CheckResult(count, rec.now, rec.config))]
    /\ UNCHANGED <<clock, seen, storeFailed>>
    /\ UNCHANGED <<tasks, verifications, auditLog, req, evalIn, evalOut,
                   apiVars, costVars,
                   pwaVars, offlineVars>>

\* await kv.incr(windowKey) rejects; the store may or may not have counted.
IncrFails(c, applied) ==
    /\ checks[c].pc = "incr"
    /\ LET rec == checks[c]
           wk == WindowKey(rec.key, rec.now, rec.config)
       IN  /\ kv' = IF applied THEN Incr(wk) ELSE kv
           /\ checks' = [checks EXCEPT ![c] =
                  Returned([rec EXCEPT !.storeOps = @ + 1, !.failedOp = "incr"],
                           CatchResult(rec.count, rec.now, rec.config))]
    /\ storeFailed' = TRUE
    /\ UNCHANGED <<clock, seen>>
    /\ UNCHANGED <<tasks, verifications, auditLog, req, evalIn, evalOut,
                   apiVars, costVars,
                   pwaVars, offlineVars>>

\* await kv.expire(windowKey, windowSeconds) resolves.
ExpireSucceeds(c) ==
    /\ checks[c].pc = "expire"
    /\ LET rec == checks[c]
           wk == WindowKey(rec.key, rec.now, rec.config)
       IN  /\ kv' = Expire(wk, rec.config.windowSeconds)
           /\ checks' = [checks EXCEPT ![c] =
                  Returned([rec EXCEPT !.storeOps = @ + 1],
                           CheckResult(rec.count, rec.now, rec.config))]
    /\ UNCHANGED <<clock, seen, storeFailed>>
    /\ UNCHANGED <<tasks, verifications, auditLog, req, evalIn, evalOut,
                   apiVars, costVars,
                   pwaVars, offlineVars>>

\* await kv.expire(...) rejects; the store may or may not have set the
\* time-to-live.
ExpireFails(c, applied) ==
    /\ checks[c].pc = "expire"
    /\ LET rec == checks[c]
           wk == WindowKey(rec.key, rec.now, rec.config)
       IN  /\ kv' = IF applied THEN Expire(wk, rec.config.windowSeconds) ELSE kv
           /\ checks' = [checks EXCEPT ![c] =
                  Returned([rec EXCEPT !.storeOps = @ + 1, !.failedOp = "expire"],
                           CatchResult(rec.count, rec.now, rec.config))]
    /\ storeFailed' = TRUE
    /\ UNCHANGED <<clock, seen>>
    /\ UNCHANGED <<tasks, verifications, auditLog, req, evalIn, evalOut,
                   apiVars, costVars,
                   pwaVars, offlineVars>>

\* A second passes: the entries whose time-to-live ran out are gone.
Tick ==
    /\ clock < MaxClock
    /\ clock' = clock + 1
    /\ kv' = Alive(kv, clock + 1)
    /\ UNCHANGED <<checks, seen, storeFailed>>
    /\ UNCHANGED <<tasks, verifications, auditLog, req, evalIn, evalOut,
                   apiVars, costVars,
                   pwaVars, offlineVars>>

InitRateLimit ==
    /\ tasks = InitialTasks(DefaultConfig)
    /\ verifications = <<>>
    /\ auditLog = <<>>
    /\ req = [r \in Reqs |-> IdleReq]
    /\ evalIn = IdleEval
    /\ evalOut = <<>>
    /\ IdleApi /\ IdleCost /\ IdlePwa /\ IdleOffline
    /\ kv = [k \in {} |-> 0]
    /\ clock = 0
    /\ \E config \in RateLimitConfigs :
          checks = [c \in CheckSlots |-> IdleCheck(config)]
    /\ seen = [wk \in WindowKeys |-> 0]
    /\ storeFailed = FALSE

NextRateLimit ==
    \/ \E c \in CheckSlots, key \in RateLimitKeys : BeginCheck(c, key)
    \/ \E c \in CheckSlots : IncrSucceeds(c)
    \/ \E c \in CheckSlots, applied \in BOOLEAN : IncrFails(c, applied)
    \/ \E c \in CheckSlots : ExpireSucceeds(c)
    \/ \E c \in CheckSlots, applied \in BOOLEAN : ExpireFails(c, applied)
    \/ Tick

SpecRateLimit == InitRateLimit /\ [][NextRateLimit]_vars

(***************************************************************************)
(* Properties of the evaluator (checked under SpecEval).                   *)
(***************************************************************************)
EvalDone == evalOut # <<>>

EvalCriteria == evalIn.config.criteria

EvalReported == evalIn.analysis.criteria_results

\* The positions of the provider's entries for criterion id.
ReportedAt(id) == {k \in 1..Len(EvalReported) : EvalReported[k].criterion_id = id}

\* The provider's (first) entry for criterion id.
ReportFor(id) ==
    EvalReported[CHOOSE k \in ReportedAt(id) : \A j \in ReportedAt(id) : k <= j]

\* The number an observed value of the model stands for (0 - 1: none).
ObservedNumber(value) ==
    CASE value = NumV(4) -> 4 [] value = NumV(12) -> 12
      [] value = StrV(<<"4">>) -> 4 [] value = StrV(<<"1", "2", " ", "u">>) -> 12
      [] OTHER -> 0 - 1

\* C4 - confidence gate: a configured criterion whose reported confidence is
\* strictly below the threshold has final passed = false, whatever the
\* provider's flag and the type rule say; if it is required the overall
\* verdict is false.
C4_ConfidenceGate ==
    EvalDone =>
        \A i \in 1..Len(EvalCriteria) :
            (/\ ReportedAt(EvalCriteria[i].id) # {}
             /\ ReportFor(EvalCriteria[i].id).confidence
                    < evalIn.config.confidenceThreshold)
            => /\ evalOut[1].criteriaResults[i].passed = FALSE
               /\ EvalCriteria[i].required => evalOut[1].passed = FALSE

\* A required boolean criterion reported {passed, value = expected} with
\* confidence 0.5 under threshold 0.8 and enough overall confidence: rejected.
C4_Witness ==
    /\ EvalDone
    /\ evalIn.analysis.overall_confidence >= evalIn.config.confidenceThreshold
    /\ \E i \in 1..Len(EvalCriteria) :
          /\ EvalCriteria[i].type = "boolean"
          /\ EvalCriteria[i].required
          /\ EvalCriteria[i].expectedValue = BoolV(TRUE)
          /\ ReportedAt(EvalCriteria[i].id) # {}
          /\ ReportFor(EvalCriteria[i].id).passed
          /\ ReportFor(EvalCriteria[i].id).value = BoolV(TRUE)
          /\ ReportFor(EvalCriteria[i].id).confidence = 50
          /\ evalOut[1].criteriaResults[i].passed = FALSE
    /\ evalOut[1].passed = FALSE

\* C5 - required-AND: the overall verdict is true iff the overall confidence
\* reaches the threshold and every required criterion's final passed is true;
\* flipping the final passed of a non-required criterion leaves it unchanged.
C5_RequiredAnd ==
    EvalDone =>
        /\ evalOut[1].passed <=>
              /\ evalIn.analysis.overall_confidence
                     >= evalIn.config.confidenceThreshold
              /\ \A i \in 1..Len(EvalCriteria) :
                    EvalCriteria[i].required
                        => evalOut[1].criteriaResults[i].passed
        /\ \A i \in 1..Len(EvalCriteria) :
              ~EvalCriteria[i].required =>
                  OverallPassed(evalIn.analysis, evalIn.config,
                      [evalOut[1].criteriaResults EXCEPT ![i].passed = ~@])
                  = evalOut[1].passed

\* An optional criterion failed and the overall verdict is still true.
C5_Witness ==
    /\ EvalDone
    /\ evalOut[1].passed
    /\ \E i \in 1..Len(EvalCriteria) :
          /\ ~EvalCriteria[i].required
          /\ ~evalOut[1].criteriaResults[i].passed
    /\ \E i \in 1..Len(EvalCriteria) : EvalCriteria[i].required

\* C6 - one result per configured criterion, in configuration order, with
\* the criterion's id and label; a criterion the provider did not report is
\* passed = false, confidence = 0, value = NOT_EVALUATED; a reported one
\* carries the provider's value and confidence; no result for other ids.
C6_OnePerCriterion ==
    EvalDone =>
        /\ Len(evalOut[1].criteriaResults) = Len(EvalCriteria)
        /\ \A i \in 1..Len(EvalCriteria) :
              LET out == evalOut[1].criteriaResults[i]
                  id == EvalCriteria[i].id
              IN  /\ out.criterionId = id
                  /\ out.label = EvalCriteria[i].label
                  /\ ReportedAt(id) = {} =>
                        /\ out.passed = FALSE
                        /\ out.confidence = 0
                        /\ out.value = NOT_EVALUATED
                  /\ ReportedAt(id) # {} =>
                        /\ out.value = ReportFor(id).value
                        /\ out.confidence = ReportFor(id).confidence

\* Two criteria, one of them not reported, and an entry for an id that is
\* not configured.
C6_Witness ==
    /\ EvalDone
    /\ Len(EvalCriteria) = 2
    /\ \E i \in 1..2 : ReportedAt(EvalCriteria[i].id) = {}
    /\ \E i \in 1..2 : ReportedAt(EvalCriteria[i].id) # {}
    /\ ReportedAt("x") # {}
    /\ Len(evalOut[1].criteriaResults) = 2

\* C7 - count bounds: for a count criterion with min and/or max, an observed
\* number below min or above max gives final passed = false; an observed
\* number within the bounds keeps the provider's verdict, subject to the
\* confidence gate (so it is never raised from false to true).
C7_CountBounds ==
    EvalDone =>
        \A i \in 1..Len(EvalCriteria) :
            LET c == EvalCriteria[i] IN
            (/\ c.type = "count"
             /\ (c.min # Undefined \/ c.max # Undefined)
             /\ ReportedAt(c.id) # {}
             /\ ObservedNumber(ReportFor(c.id).value) >= 0)
            => LET n == ObservedNumber(ReportFor(c.id).value)
                   outside == \/ c.min # Undefined /\ n < c.min.n
                              \/ c.max # Undefined /\ n > c.max.n
               IN  evalOut[1].criteriaResults[i].passed =
                      (/\ ~outside
                       /\ ReportFor(c.id).passed
                       /\ ReportFor(c.id).confidence
                              >= evalIn.config.confidenceThreshold)

\* min = 5, observed 4, the provider said passed with enough confidence.
C7_Witness ==
    /\ EvalDone
    /\ \E i \in 1..Len(EvalCriteria) :
          LET c == EvalCriteria[i] IN
          /\ c.type = "count"
          /\ c.min = NumV(5)
          /\ ReportedAt(c.id) # {}
          /\ ObservedNumber(ReportFor(c.id).value) = 4
          /\ ReportFor(c.id).passed
          /\ ReportFor(c.id).confidence >= evalIn.config.confidenceThreshold
          /\ evalOut[1].criteriaResults[i].passed = FALSE

\* C8 - boolean expectation: for a boolean criterion with expectedValue set
\* and confidence at or above the threshold, final passed equals
\* (observed value === expectedValue), whatever the provider's flag.
C8_BooleanExpectation ==
    EvalDone =>
        \A i \in 1..Len(EvalCriteria) :
            LET c == EvalCriteria[i] IN
            (/\ c.type = "boolean"
             /\ c.expectedValue # Undefined
             /\ ReportedAt(c.id) # {}
             /\ ReportFor(c.id).confidence >= evalIn.config.confidenceThreshold)
            => evalOut[1].criteriaResults[i].passed =
                   (ReportFor(c.id).value = c.expectedValue)

\* The provider said failed, the observed value equals the expected one,
\* and the final verdict of the criterion is passed.
C8_Witness ==
    /\ EvalDone
    /\ \E i \in 1..Len(EvalCriteria) :
          LET c == EvalCriteria[i] IN
          /\ c.type = "boolean"
          /\ c.expectedValue = BoolV(TRUE)
          /\ ReportedAt(c.id) # {}
          /\ ~ReportFor(c.id).passed
          /\ ReportFor(c.id).value = BoolV(TRUE)
          /\ ReportFor(c.id).confidence >= evalIn.config.confidenceThreshold
          /\ evalOut[1].criteriaResults[i].passed = TRUE

(***************************************************************************)
(* Properties of the orchestrator (checked under Spec).                    *)
(***************************************************************************)
\* Call r has left the retry loop without an analysis: every provider
\* attempt it made failed.
GaveUp(r) ==
    /\ req[r].pc \in {"insert", "update", "audit", "done", "error"}
    /\ req[r].pc = "error" => req[r].error = ExhaustedError(req[r])
    /\ req[r].analysisWithUsage = <<>>

\* C1 - retry bound: with maxRetries = n >= 0 and a provider that fails on
\* every attempt, analyzeImage is invoked exactly n + 1 times before the
\* call gives up (n = 0: exactly one attempt).
C1_RetryBound ==
    \A r \in Reqs :
        (GaveUp(r) /\ req[r].config.maxRetries >= 0)
            => req[r].attempts = req[r].config.maxRetries + 1

\* C2 - fallback result: when every attempt failed and fallbackToManual is
\* true the call returns a result with passed = false, overallConfidence = 0,
\* no criteria results and retryCount = config.maxRetries.
C2_FallbackResult ==
    \A r \in Reqs :
        (GaveUp(r) /\ req[r].config.fallbackToManual)
            => /\ req[r].pc # "error"
               /\ req[r].result # <<>>
               /\ req[r].result[1].passed = FALSE
               /\ req[r].result[1].overallConfidence = 0
               /\ req[r].result[1].criteriaResults = <<>>
               /\ req[r].result[1].retryCount = req[r].config.maxRetries

\* C3 - fallback disabled: when every attempt failed and fallbackToManual is
\* false the call ends with the exhaustion error and without a result, and
\* at that moment the tables are as the call found them: no verification
\* row, no audit row, every task status unchanged.
C3_ExhaustedLeavesNoTrace ==
    [][\A r \in Reqs :
          (/\ req[r].pc = "attempt"
           /\ req'[r].pc # "attempt"
           /\ GaveUp(r)'
           /\ ~req'[r].config.fallbackToManual)
          => /\ req'[r].pc = "error"
             /\ req'[r].error = ExhaustedError(req'[r])
             /\ req'[r].result = <<>>
             /\ req'[r].before[1].tasks = tasks'
             /\ req'[r].before[1].verifications = verifications'
             /\ req'[r].before[1].auditLog = auditLog']_vars

\* An internal call on a task that an earlier call completed runs out of
\* attempts with the fallback disabled.
C3_Witness ==
    \E r \in Reqs :
        /\ GaveUp(r)
        /\ ~req[r].config.fallbackToManual
        /\ req[r].mode = "internal"
        /\ req[r].attempts >= 2
        /\ req[r].pc = "error"
        /\ tasks[req[r].taskId].status = "completed"
        /\ Len(verifications) = 1

\* The status of the task when an internal call returns its result.
StatusOnReturn ==
    \A r \in Reqs :
        (req[r].pc # "done" /\ req'[r].pc = "done" /\ req'[r].mode = "internal")
            => tasks'[req'[r].taskId].status =
                  IF req'[r].result[1].passed THEN "completed"
                  ELSE IF req'[r].config.fallbackToManual THEN "manual_review"
                  ELSE "failed"

\* Every status the verification path writes is one of the three.
StatusWrites ==
    \A t \in DOMAIN tasks :
        tasks'[t].status # tasks[t].status
            => tasks'[t].status \in {"completed", "failed", "manual_review"}

\* C9 - when an internal call completes without error the task's status is
\* completed if the result passed, failed if it did not and fallbackToManual
\* is false, manual_review if it did not and fallbackToManual is true; the
\* verification path writes no other status.
C9_StatusAfterVerify == [][StatusOnReturn /\ StatusWrites]_vars

\* A call on a pending task whose criterion failed, fallback enabled, has
\* finished and the task is in manual_review.
C9_Witness ==
    \E r \in Reqs :
        /\ req[r].pc = "done"
        /\ req[r].mode = "internal"
        /\ req[r].before[1].tasks[req[r].taskId].status = "pending"
        /\ req[r].config.fallbackToManual
        /\ req[r].analysisWithUsage # <<>>
        /\ ~req[r].result[1].passed
        /\ tasks[req[r].taskId].status = "manual_review"

\* C10 - terminal states are absorbing: once a task is completed, failed or
\* manual_review no step of a verification changes its status.
C10_TerminalAbsorbing ==
    [][\A t \in DOMAIN tasks :
          tasks[t].status \in TerminalStatuses
              => tasks'[t].status = tasks[t].status]_vars

\* Call r starts in this step as an internal call on a task id that does
\* not exist or that belongs to another tenant than the caller's.
StartsOnForeignTask(r) ==
    /\ req[r].pc = "idle"
    /\ req'[r].pc # "idle"
    /\ req'[r].mode = "internal"
    /\ \/ req'[r].taskId \notin DOMAIN tasks
       \/ tasks[req'[r].taskId].tenantId # req'[r].tenantId

\* C11 - tenant scoping of internal mode: a verifyPhoto call on a task id
\* that is absent or owned by another tenant ends at once with the not-found
\* error, before any provider call, and leaves tasks, verifications and
\* audit log unchanged; no step of a verify call by tenant A changes a task
\* of another tenant, and every verification row carries a caller's tenant.
C11_TenantScoping ==
    [][/\ \A r \in Reqs :
             StartsOnForeignTask(r)
                 => /\ req'[r].pc = "error"
                    /\ req'[r].error = "Task not found"
                    /\ req'[r].attempts = 0
                    /\ UNCHANGED <<tasks, verifications, auditLog>>
       /\ \A t \in DOMAIN tasks :
             tasks[t].tenantId \notin CallerTenants => tasks'[t] = tasks[t]
       /\ \A i \in 1..Len(verifications') :
             verifications'[i].tenantId \in CallerTenants]_vars

\* After a call of tenant A that completed its own task, a call of tenant A
\* on tenant B's task t2 has ended with the not-found error and t2 is as it
\* was.
C11_Witness ==
    \E r \in Reqs :
        /\ req[r].pc = "error"
        /\ req[r].mode = "internal"
        /\ req[r].taskId = "t2"
        /\ req[r].tenantId = "tenantA"
        /\ req[r].error = "Task not found"
        /\ req[r].attempts = 0
        /\ tasks["t2"].status = "pending"
        /\ Len(verifications) = 1
        /\ verifications[1].tenantId = "tenantA"

(***************************************************************************)
(* Properties of POST /api/verify (checked under SpecApi).                 *)
(***************************************************************************)
\* The body the handler parsed for request r (none when the request was
\* answered before the body was read).
ParsedBody(r) == req[r].body

Incomplete(body) ==
    \/ body.imageUrl = <<>> /\ body.imageBase64 = <<>>
    \/ body.taskId = <<>> /\ body.externalTaskId = <<>>
    \/ body.externalTaskId # <<>> /\ body.config = <<>>

\* C12 - every request whose body reaches validation with neither imageUrl
\* nor imageBase64, or with neither taskId nor externalTaskId, or with
\* externalTaskId and no config, is answered 400 VALIDATION_ERROR; it enters
\* no verification, makes no provider call and the step that answers it
\* writes nothing (tasks, verifications, audit log, stored images).
C12_ValidationError ==
    [][\A r \in Reqs :
          (req'[r].body # <<>> /\ Incomplete(req'[r].body[1]))
          => /\ req'[r].pc = "responded"
             /\ req'[r].response = ErrorResponse(400, "VALIDATION_ERROR")
             /\ req'[r].mode = "none"
             /\ req'[r].attempts = 0
             /\ req'[r].imageInput = <<>>
             /\ req[r].pc = "idle"
                    => UNCHANGED <<tasks, verifications, auditLog, blobs>>]_vars

\* An authenticated request naming task t1 and carrying no image was
\* answered VALIDATION_ERROR, and so was one naming an external task without
\* a configuration.
C12_Witness ==
    \E r \in Reqs :
        /\ req[r].auth # <<>>
        /\ ParsedBody(r) # <<>>
        /\ \/ /\ ParsedBody(r)[1].taskId = <<"t1">>
              /\ ParsedBody(r)[1].imageUrl = <<>>
              /\ ParsedBody(r)[1].imageBase64 = <<>>
           \/ /\ ParsedBody(r)[1].externalTaskId = <<"ext1">>
              /\ ParsedBody(r)[1].imageUrl # <<>>
              /\ ParsedBody(r)[1].config = <<>>
        /\ req[r].pc = "responded"
        /\ req[r].response = ErrorResponse(400, "VALIDATION_ERROR")
        /\ verifications = <<>>

\* C13 - a request that supplies both imageUrl and imageBase64 is not
\* accepted: it is answered VALIDATION_ERROR and no image input is handed to
\* verifyPhoto / verifyPhotoExternal for it.
C13_ExactlyOneImage ==
    \A r \in Reqs :
        (/\ ParsedBody(r) # <<>>
         /\ ParsedBody(r)[1].imageUrl # <<>>
         /\ ParsedBody(r)[1].imageBase64 # <<>>)
        => /\ req[r].pc = "responded"
           /\ req[r].response = ErrorResponse(400, "VALIDATION_ERROR")
           /\ req[r].imageInput = <<>>

(***************************************************************************)
(* Properties of persistence (checked under SpecApi).                      *)
(***************************************************************************)
\* The step of request r in which an awaited write rejects: the request was
\* at a write, the tables are as they were and the function was not stopped.
WriteFailed(r) ==
    /\ req[r].pc \in {"insert", "update", "audit"}
    /\ req'[r] # req[r]
    /\ req'[r].pc # "aborted"
    /\ UNCHANGED <<tasks, verifications, auditLog>>

\* The tables hold the verification row and the audit row of request rec as
\* the last rows added since the request began.
RecordAndAuditWritten(rec, vs, log) ==
    /\ Len(vs) = Len(rec.before[1].verifications) + 1
    /\ vs[Len(vs)] = VerificationRow(rec)
    /\ Len(log) = Len(rec.before[1].auditLog) + 1
    /\ log[Len(log)] = AuditRow(rec)

\* C17: when the insert of the verification, the update of the task status
\* or the insert of the audit entry fails, the call ends with an error and
\* the response of POST /api/verify has success = FALSE and an error code;
\* and a response with success = TRUE is built only when the verification
\* row and the audit row of the request have been written.
C17_PersistenceFailures ==
    [][\A r \in ApiReqs :
          /\ WriteFailed(r) =>
                /\ req'[r].pc = "error"
                /\ Response(req'[r]) # <<>>
                /\ ~Response(req'[r])[1].success
                /\ Response(req'[r])[1].code # ""
          /\ (Response(req'[r]) # <<>> /\ Response(req'[r])[1].success) =>
                RecordAndAuditWritten(req'[r], verifications', auditLog')
      ]_vars

\* The audit insert failed after the verification row was written, and the
\* request was answered 500.
C17_Witness ==
    \E r \in ApiReqs :
        /\ req[r].pc = "error"
        /\ req[r].error = "Connection terminated"
        /\ req[r].before # <<>>
        /\ Len(verifications) = Len(req[r].before[1].verifications) + 1
        /\ Len(auditLog) = Len(req[r].before[1].auditLog)
        /\ Response(req[r]) = ErrorResponse(500, "INTERNAL_ERROR")

\* C18: once a verification request has ended (answered, failed at a write,
\* or stopped by cancellation or timeout), its verification row, its audit
\* entry and (internal mode) the new status of its task are all present or
\* all absent: no verification row without its audit entry.
C18_AllOrNothing ==
    \A r \in ApiReqs :
        (req[r].pc \in {"done", "error", "aborted"} /\ req[r].before # <<>>) =>
            LET rec == req[r]
                recordWritten ==
                    Len(verifications) > Len(rec.before[1].verifications)
                auditWritten == Len(auditLog) > Len(rec.before[1].auditLog)
            IN  /\ recordWritten <=> auditWritten
                /\ (recordWritten /\ rec.mode = "internal") =>
                      tasks[rec.taskId].status =
                          NewStatus(rec.result[1].passed, rec.config)

\* C25: POST /api/verify answers with code NOT_FOUND only for an
\* internal-mode request whose task was absent or belonged to another
\* tenant when the request looked it up.
C25_NotFoundOnlyForTask ==
    \A r \in ApiReqs :
        (Response(req[r]) # <<>> /\ Response(req[r])[1].code = "NOT_FOUND") =>
            /\ req[r].mode = "internal"
            /\ req[r].before # <<>>
            /\ \/ req[r].taskId \notin DOMAIN req[r].before[1].tasks
               \/ req[r].before[1].tasks[req[r].taskId].tenantId
                      # req[r].tenantId

(***************************************************************************)
(* Properties of the audit log (checked under SpecAudit).                  *)
(***************************************************************************)
\* Every entry of log is still in later, at its place and unchanged.
KeepsEntries(log, later) ==
    /\ Len(log) <= Len(later)
    /\ \A i \in 1..Len(log) : later[i] = log[i]

\* C19: no operation (verification in either mode, task create, update and
\* delete, tenant create, reads) removes or changes an audit entry, and a
\* verification that returns has added exactly one entry, with action
\* photo_verified, to the entries it found.
C19_AuditAppendOnly ==
    [][/\ KeepsEntries(auditLog, auditLog')
       /\ \A r \in ApiReqs :
             (req[r].pc # "done" /\ req'[r].pc = "done") =>
                 /\ Len(auditLog') = Len(req'[r].before[1].auditLog) + 1
                 /\ KeepsEntries(req'[r].before[1].auditLog, auditLog')
                 /\ auditLog'[Len(auditLog')].action = "photo_verified"
      ]_vars

\* A task was verified and then deleted: its verification rows are gone,
\* the photo_verified entry is still there, followed by task_deleted.
C19_Witness ==
    /\ Len(auditLog) = 2
    /\ auditLog[1].action = "photo_verified"
    /\ auditLog[2].action = "task_deleted"
    /\ auditLog[1].entityId = auditLog[2].entityId
    /\ auditLog[1].entityId \notin DOMAIN tasks
    /\ verifications = <<>>

(***************************************************************************)
(* Properties of the roles (checked under SpecApi).                        *)
(***************************************************************************)
\* C20: no step of a request authenticated with role viewer changes the
\* tasks, the verification rows, the audit entries or the stored images.
C20_ViewerReadOnly ==
    [][\A r \in ApiReqs :
          (/\ req'[r] # req[r]
           /\ req'[r].auth # <<>>
           /\ req'[r].auth[1].role = "viewer") =>
              UNCHANGED <<tasks, verifications, auditLog, blobs>>
      ]_vars

(***************************************************************************)
(* Properties of the rate limiter (checked under SpecRateLimit).           *)
(***************************************************************************)
\* C14: while no operation on the counter store has failed, the k-th
\* checkRateLimit call of a key whose time falls in one window (index
\* floor(now / windowSeconds)) returns allowed = TRUE exactly when
\* k <= maxRequests; in particular the first call of the next window is
\* allowed again.
C14_FixedWindow ==
    ~storeFailed =>
        \A c \in CheckSlots :
            checks[c].pc = "returned" =>
                (checks[c].result[1].allowed
                    <=> checks[c].nth <= checks[c].config.maxRequests)

\* C15: a checkRateLimit call during which an operation on the counter store
\* failed returns allowed = TRUE, remaining = -1 and resetAt = 0, has not
\* repeated the failed operation (one store operation when incr failed, two
\* when expire failed), and the middleware builds no 429 response.
C15_FailOpen ==
    \A c \in CheckSlots :
        (checks[c].pc = "returned" /\ checks[c].failedOp # "") =>
            /\ checks[c].result =
                   <<[allowed |-> TRUE, remaining |-> 0 - 1, resetAt |-> 0]>>
            /\ checks[c].response = <<>>
            /\ checks[c].storeOps = IF checks[c].failedOp = "incr" THEN 1 ELSE 2

\* The store failed on the call that would otherwise have been rejected:
\* the counter is already above maxRequests, and the call is let through.
C15_Witness ==
    \E c \in CheckSlots :
        /\ checks[c].pc = "returned"
        /\ checks[c].failedOp = "incr"
        /\ checks[c].nth > checks[c].config.maxRequests
        /\ checks[c].result[1].allowed
        /\ checks[c].response = <<>>

(***************************************************************************)
(* The two calls of estimateCostUsd in runVerification, on their own.      *)
(***************************************************************************)
CostCall(site, model, usage) ==
    <<[site |-> site, model |-> model, usage |-> usage,
       result |-> estimateCostUsd(model, usage)]>>

\* runVerification, analysis obtained: the cost of the accumulated tokens.
CostOfVerification(provider, configModel, usage) ==
    /\ cost' = CostCall("verified", ResolveModel(configModel, provider), usage)
    /\ UNCHANGED <<tasks, verifications, auditLog, req, evalIn, evalOut,
                   apiVars, rlVars,
                   pwaVars, offlineVars>>

\* runVerification, every attempt failed and fallbackToManual: no tokens
\* were accumulated.
CostOfFallback(provider, configModel) ==
    /\ cost' = CostCall("fallback", ResolveModel(configModel, provider),
                        [inputTokens |-> 0, outputTokens |-> 0])
    /\ UNCHANGED <<tasks, verifications, auditLog, req, evalIn, evalOut,
                   apiVars, rlVars,
                   pwaVars, offlineVars>>

InitCost ==
    /\ tasks = InitialTasks(DefaultConfig)
    /\ verifications = <<>>
    /\ auditLog = <<>>
    /\ req = [r \in Reqs |-> IdleReq]
    /\ evalIn = IdleEval
    /\ evalOut = <<>>
    /\ IdleApi /\ IdleRateLimit /\ IdleCost /\ IdlePwa /\ IdleOffline

NextCost ==
    \/ \E provider \in Providers, configModel \in ModelIds,
          usage \in TokenUsages :
            CostOfVerification(provider, configModel, usage)
    \/ \E provider \in Providers, configModel \in ModelIds :
            CostOfFallback(provider, configModel)

SpecCost == InitCost /\ [][NextCost]_vars

\* The nearest millionth of a dollar to thousandths / 1000 of one.
IsRoundedTo6Decimals(micro, thousandths) ==
    /\ 1000 * micro <= thousandths + 500
    /\ thousandths + 500 < 1000 * micro + 1000

\* C16: estimateCostUsd returns, for a model of the price table, the number
\* (inputTokens x inputPer1M + outputTokens x outputPer1M) / 1,000,000
\* rounded to 6 decimals (gpt-4o-mini with 1000 and 500 tokens: 0.00045),
\* and the number 0 for every other model identifier.
C16_CostEstimate ==
    \A i \in 1..Len(cost) :
        LET call == cost[i]
            pricing == MODEL_PRICING(call.model)
        IN  /\ call.model \in PricedModels =>
                /\ ~call.result.nan
                /\ IsRoundedTo6Decimals(call.result.n,
                       call.usage.inputTokens * pricing.inputPer1M
                       + call.usage.outputTokens * pricing.outputPer1M)
            /\ (/\ call.model = "gpt-4o-mini"
                /\ call.usage = [inputTokens |-> 1000, outputTokens |-> 500])
                  => call.result = Num(450)
            /\ call.model \notin PricedModels => call.result = Num(0)

(***************************************************************************)
(* PWA manifest: applyDynamicManifest over the document head and the blob  *)
(* URL registry.  The n-th URL handed out by URL.createObjectURL is n.     *)
(***************************************************************************)
MaxApplies == 3

BrandIds == {"brand1", "brand2"}

\* The fields of BrandConfig the manifest is built from.
Brands ==
    [appName : {"", "TestApp"}, primary : {"#FF0000", "#123456"},
     logo : {"", "https://cdn.example.com/logo.png"}]

\* brand.labels.appName?.[0]?.toUpperCase() || 'S'
Initial(appName) == IF appName = "" THEN "S" ELSE "T"

\* brand.images.logo || generateIconDataUrl(initial, brand.colors.primary, size)
Icon(brand, size) ==
    IF brand.logo # "" THEN [t |-> "url", src |-> brand.logo, size |-> 0]
    ELSE [t |-> "generated", src |-> Initial(brand.appName) \o brand.primary,
          size |-> size]

Manifest(brand, brandId) ==
    [short_name |-> brand.appName, start_url |-> brandId,
     theme_color |-> brand.primary,
     icons |-> <<Icon(brand, 192), Icon(brand, 512)>>]

\* URL.createObjectURL never hands out the same URL twice.
CreateObjectURL == Cardinality(DOMAIN objectUrls) + Len(revokedUrls) + 1

\* document.querySelector('link[rel="manifest"]'); if (existing) existing.remove()
WithoutFirstLink(links) == IF links = <<>> THEN <<>> ELSE Tail(links)

applyDynamicManifest(brand, brandId) ==
    /\ CreateObjectURL <= MaxApplies
    /\ LET url == CreateObjectURL
       IN  /\ objectUrls' = [u \in DOMAIN objectUrls \cup {url} |->
                                IF u = url THEN Manifest(brand, brandId)
                                ELSE objectUrls[u]]
           /\ manifestLinks' = Append(WithoutFirstLink(manifestLinks), url)
    /\ themeColor' = <<brand.primary>>
    /\ UNCHANGED revokedUrls
    /\ UNCHANGED <<tasks, verifications, auditLog, req, evalIn, evalOut,
                   apiVars, rlVars, costVars, offlineVars>>

InitPwa ==
    /\ tasks = InitialTasks(DefaultConfig)
    /\ verifications = <<>>
    /\ auditLog = <<>>
    /\ req = [r \in Reqs |-> IdleReq]
    /\ evalIn = IdleEval
    /\ evalOut = <<>>
    /\ IdleApi /\ IdleRateLimit /\ IdleCost /\ IdlePwa /\ IdleOffline

NextPwa ==
    \E brand \in Brands, brandId \in BrandIds :
        applyDynamicManifest(brand, brandId)

SpecPwa == InitPwa /\ [][NextPwa]_vars

\* C21: each call of applyDynamicManifest after the first revokes exactly
\* one blob URL, the one of the manifest link the preceding call installed;
\* after every call one manifest link is in the document and at most one
\* blob URL is not revoked.
C21_RevokesPrevious ==
    [][manifestLinks' # manifestLinks =>
          /\ Len(manifestLinks') = 1
          /\ Cardinality(DOMAIN objectUrls') <= 1
          /\ manifestLinks # <<>> =>
                revokedUrls' = Append(revokedUrls, manifestLinks[1])
      ]_vars

(***************************************************************************)
(* Properties of the retry loop (checked under SpecRetry).                 *)
(***************************************************************************)
\* C22: in one request, the k-th failed attempt is followed by a wait of
\* 1000 x 2^(k-1) ms (1 s, 2 s, 4 s); an attempt after the first starts
\* only from such a wait, so one analyze call is made at a time; and the
\* failure of the last permitted attempt (number maxRetries + 1) is
\* followed by no wait.
C22_SequentialBackoff ==
    [][\A r \in ApiReqs :
          LET k == req'[r].attempts
          IN  /\ (req[r].pc = "attempt" /\ req'[r].pc = "backoff") =>
                    /\ k = req[r].attempts + 1
                    /\ req'[r].backoffMs =
                          CASE k = 1 -> 1000 [] k = 2 -> 2000 [] k = 3 -> 4000
                            [] k = 4 -> 8000 [] OTHER -> 0
              /\ (req[r].pc # "attempt" /\ req'[r].pc = "attempt"
                  /\ req[r].attempts >= 1) =>
                    /\ req[r].pc = "backoff"
                    /\ req'[r].attempts = req[r].attempts
              /\ (req[r].pc = "attempt" /\ req'[r].attempts = req[r].attempts + 1
                  /\ req'[r].analysisWithUsage = <<>>
                  /\ req'[r].attempts = req[r].maxRetries + 1) =>
                    req'[r].pc # "backoff"
      ]_vars

\* The third attempt failed and the request waits 4 s before the fourth.
C22_Witness ==
    \E r \in ApiReqs :
        /\ req[r].pc = "backoff"
        /\ req[r].attempts = 3
        /\ req[r].backoffMs = 4000

\* The totals a result, a verification row or an audit entry carries.
Totals(x) ==
    [inputTokens |-> x.inputTokens, outputTokens |-> x.outputTokens,
     estimatedCostUsd |-> x.estimatedCostUsd]

\* C23: the token totals of a result do not depend on the number of
\* attempts: with no successful attempt they are 0 and 0 and the estimated
\* cost is 0; with a success after k failures they are the usage the
\* successful attempt reported; and the verification row and the audit
\* entry of the request carry the totals of the result.
C23_TokenTotals ==
    \A r \in ApiReqs :
        req[r].result # <<>> =>
            LET rec == req[r]
                result == rec.result[1]
            IN  /\ rec.analysisWithUsage = <<>> =>
                      /\ result.inputTokens = 0
                      /\ result.outputTokens = 0
                      /\ result.estimatedCostUsd = Num(0)
                /\ rec.analysisWithUsage # <<>> =>
                      /\ result.inputTokens =
                            rec.analysisWithUsage[1].tokenUsage.inputTokens
                      /\ result.outputTokens =
                            rec.analysisWithUsage[1].tokenUsage.outputTokens
                /\ rec.pc = "done" =>
                      /\ Totals(verifications[Len(verifications)]) = Totals(result)
                      /\ Totals(auditLog[Len(auditLog)].details) = Totals(result)

(***************************************************************************)
(* Concurrent checkRateLimit calls: every slot runs one call, the steps of *)
(* different calls interleave freely, the store does not fail.             *)
(***************************************************************************)
ConcurrentSlots == {1, 2, 3}

InitConcurrent ==
    /\ tasks = InitialTasks(DefaultConfig)
    /\ verifications = <<>>
    /\ auditLog = <<>>
    /\ req = [r \in Reqs |-> IdleReq]
    /\ evalIn = IdleEval
    /\ evalOut = <<>>
    /\ IdleApi /\ IdleCost /\ IdlePwa /\ IdleOffline
    /\ kv = [k \in {} |-> 0]
    /\ clock = 0
    /\ \E config \in RateLimitConfigs :
          checks = [c \in ConcurrentSlots |-> IdleCheck(config)]
    /\ seen = [wk \in WindowKeys |-> 0]
    /\ storeFailed = FALSE

NextConcurrent ==
    \/ \E c \in ConcurrentSlots, key \in RateLimitKeys :
          checks[c].pc = "idle" /\ BeginCheck(c, key)
    \/ \E c \in ConcurrentSlots : IncrSucceeds(c)
    \/ \E c \in ConcurrentSlots : ExpireSucceeds(c)
    \/ Tick

SpecConcurrent == InitConcurrent /\ [][NextConcurrent]_vars

\* The call of slot c has its counter value.
Counted(c) == checks[c].pc \in {"expire", "returned"}

SameWindow(c, d) ==
    WindowKey(checks[c].key, checks[c].now, checks[c].config)
        = WindowKey(checks[d].key, checks[d].now, checks[d].config)

\* C24: concurrent checkRateLimit calls of one key whose times fall in the
\* same window observe pairwise distinct counter values, and at most
\* maxRequests of them return allowed = TRUE.
C24_ConcurrentChecks ==
    /\ \A c, d \in ConcurrentSlots :
          (c # d /\ Counted(c) /\ Counted(d) /\ SameWindow(c, d)) =>
              checks[c].count # checks[d].count
    /\ \A c \in ConcurrentSlots :
          checks[c].pc = "returned" =>
              Cardinality({d \in ConcurrentSlots :
                              /\ checks[d].pc = "returned"
                              /\ SameWindow(c, d)
                              /\ checks[d].result[1].allowed})
                  <= checks[c].config.maxRequests

(***************************************************************************)
(* Properties of the provider and model resolution (under SpecResolve).   *)
(***************************************************************************)
\* The configuration as the caller gave it: the one of the request body, or
\* the one passed to the call.
GivenConfig(rec) == IF rec.body # <<>> THEN rec.body[1].config[1] ELSE rec.config

OwnDefault(provider) ==
    IF provider = "gemini" THEN "gemini-2.0-flash" ELSE "gpt-4o-mini"

\* C26: the backend invoked is the one config.provider names (openai when
\* absent); when the caller's configuration names no model, the model of
\* the provider call and the model of the cost estimate are that
\* provider's default (gpt-4o-mini for openai, gemini-2.0-flash for
\* gemini), for configurations of a request and for ones passed directly.
C26_ProviderAndModel ==
    \A r \in ApiReqs :
        req[r].invoked # <<>> =>
            LET given == GivenConfig(req[r])
                provider == IF given.provider = "" THEN "openai"
                            ELSE given.provider
            IN  /\ req[r].invoked[1].backend = provider
                /\ given.model = "" =>
                      /\ req[r].invoked[1].model = OwnDefault(provider)
                      /\ ModelOf(req[r].config) = OwnDefault(provider)
                      /\ req[r].result # <<>> =>
                            req[r].result[1].modelUsed
                                = <<provider, OwnDefault(provider)>>

\* C29: whatever number maxRetries holds, runVerification reports
\* exhaustion (the fallback result or the exhaustion error) only after it
\* has invoked the provider at least once, and it leaves the loop after at
\* most maxRetries + 1 attempts.
C29_ExhaustionAfterAttempt ==
    \A r \in ApiReqs :
        /\ GaveUp(r) => req[r].attempts >= 1
        /\ req[r].attempts <= 1 \/ req[r].attempts <= req[r].maxRetries + 1

(***************************************************************************)
(* Overlapping calls of verifyPhoto on one task: every awaited step of a   *)
(* call may be followed by a step of another call.                         *)
(***************************************************************************)
OverlapTask == "t1"

NextOverlap ==
    \/ \E r \in Reqs : verifyPhoto_Begin(r, OverlapTask, "tenantA", <<>>)
    \/ \E r \in Reqs, analysis \in RetryAnalyses, usage \in ReportedUsage :
           AttemptSucceeds(r, analysis, usage)
    \/ \E r \in Reqs :
           AttemptFails(r, "Empty response from OpenAI vision model")
    \/ \E r \in Reqs : BackoffElapsed(r)
    \/ \E r \in Reqs : InsertVerification(r)
    \/ \E r \in Reqs : UpdateTaskStatus(r)
    \/ \E r \in Reqs : InsertAudit(r)

SpecOverlap == InitApi /\ [][NextOverlap]_vars

\* The Verification records of a task, oldest first.
RecordsOf(taskId) ==
    SelectSeq(verifications, LAMBDA v : v.taskId = <<taskId>>)

AllFinished == \A r \in Reqs : req[r].pc \in {"idle", "done", "error"}

\* C28: once all overlapping calls of verifyPhoto on a task have finished,
\* the status of the task is the one the most recently inserted
\* Verification record of the task implies: completed exactly when that
\* record passed.
C28_LatestRecordDecides ==
    AllFinished =>
        LET rows == RecordsOf(OverlapTask)
        IN  rows # <<>> =>
                LET latest == rows[Len(rows)]
                IN  tasks[OverlapTask].status =
                        NewStatus(latest.passed, latest.configUsed)

(***************************************************************************)
(* Properties of the task reference of a Verification record, under        *)
(* SpecApi.                                                                *)
(***************************************************************************)
\* The record a request inserted: the first one after those it found.
InsertedRow(rec) == verifications[Len(rec.before[1].verifications) + 1]

HasInserted(rec) ==
    /\ rec.pc \in {"update", "audit", "done"}
    /\ rec.before # <<>>
    /\ Len(verifications) > Len(rec.before[1].verifications)

\* C27: every persisted Verification record has exactly one task reference:
\* a record written by verifyPhoto carries taskId and no externalTaskId, a
\* record written by verifyPhotoExternal carries externalTaskId and no
\* taskId; a request that supplied both identifiers is handled in internal
\* mode; and the mode and taskReference of the response name the reference
\* of the record the request persisted.
C27_OneTaskReference ==
    /\ \A i \in 1..Len(verifications) :
          (verifications[i].taskId = <<>>) # (verifications[i].externalTaskId = <<>>)
    /\ \A r \in ApiReqs :
          HasInserted(req[r]) =>
              LET rec == req[r]
                  row == InsertedRow(rec)
              IN  /\ rec.mode = "internal" =>
                        row.taskId = <<rec.taskId>> /\ row.externalTaskId = <<>>
                  /\ rec.mode = "external" =>
                        row.externalTaskId = <<rec.taskId>> /\ row.taskId = <<>>
                  /\ rec.body # <<>> /\ Truthy(rec.body[1].taskId) =>
                        rec.mode = "internal" /\ row.taskId = rec.body[1].taskId
                  /\ rec.body # <<>> /\ rec.pc = "done" =>
                        LET data == ResponseData(rec)
                        IN  /\ data.mode = rec.mode
                            /\ data.mode = "internal" =>
                                  row.taskId = data.taskReference
                            /\ data.mode = "external" =>
                                  row.externalTaskId = data.taskReference

\* A request that supplied both identifiers has been answered after its
\* record was written.
C27_Witness ==
    \E r \in ApiReqs :
        /\ req[r].pc = "done"
        /\ HasInserted(req[r])
        /\ req[r].body # <<>>
        /\ Truthy(req[r].body[1].taskId)
        /\ Truthy(req[r].body[1].externalTaskId)
        /\ InsertedRow(req[r]).taskId = req[r].body[1].taskId

(***************************************************************************)
(* Offline sync queue: queueMissionCompletion and processSyncQueue over    *)
(* the syncQueue object store.                                             *)
(***************************************************************************)
MaxTimestamp == 3

SyncTasks == <<"T1", "T2">>

SyncBrands == {"brand1"}

SyncVisits == {"V1"}

\* `${taskId}_${Date.now()}`
SyncItemId(taskId, now) == taskId \o "_" \o ToString(now)

\* The keys of the store in the order getAll returns them.
KeyOrder ==
    [k \in 1..(Len(SyncTasks) * MaxTimestamp) |->
        SyncItemId(SyncTasks[((k - 1) \div MaxTimestamp) + 1],
                   ((k - 1) % MaxTimestamp) + 1)]

\* put('syncQueue', item): the store is keyed by id.
Put(store, item) ==
    [id \in DOMAIN store \cup {item.id} |->
        IF id = item.id THEN item ELSE store[id]]

\* remove('syncQueue', id): deleting an absent key changes nothing.
Remove(store, key) == [id \in DOMAIN store \ {key} |-> store[id]]

\* getAll('syncQueue')
getPendingSyncs ==
    LET keys == SelectSeq(KeyOrder, LAMBDA id : id \in DOMAIN syncQueue)
    IN  [k \in 1..Len(keys) |-> syncQueue[keys[k]]]

\* A completion is queued; two completions never share a millisecond.
queueMissionCompletion(brandId, visitId, taskId, now) ==
    /\ now > sync.now
    /\ now <= MaxTimestamp
    /\ syncQueue' = Put(syncQueue,
                        [id |-> SyncItemId(taskId, now),
                         type |-> "mission_complete", brandId |-> brandId,
                         visitId |-> visitId, taskId |-> taskId,
                         timestamp |-> now])
    /\ sync' = [sync EXCEPT !.now = now]
    /\ UNCHANGED <<tasks, verifications, auditLog, req, evalIn, evalOut,
                   apiVars, rlVars, costVars, pwaVars>>

\* The for loop moves to the next item, or the function returns synced.
NextItem(run) ==
    IF run.i < Len(run.pending)
    THEN [run EXCEPT !.pc = "syncFn", !.i = @ + 1]
    ELSE [run EXCEPT !.pc = "returned"]

\* processSyncQueue begins: pending = await this.getPendingSyncs().
processSyncQueue_Begin ==
    /\ sync.pc \in {"idle", "returned", "rejected"}
    /\ sync' = NextItem([sync EXCEPT !.pending = getPendingSyncs, !.i = 0,
                                     !.synced = 0,
                                     !.outcome = [id \in {} |-> ""],
                                     !.removed = {}])
    /\ UNCHANGED <<tasks, verifications, auditLog, req, evalIn, evalOut,
                   apiVars, rlVars, costVars, pwaVars, syncQueue>>

\* getPendingSyncs rejects: processSyncQueue rejects before its loop.
processSyncQueue_Rejects ==
    /\ sync.pc \in {"idle", "returned", "rejected"}
    /\ sync' = [sync EXCEPT !.pc = "rejected", !.pending = <<>>, !.i = 0,
                            !.synced = 0, !.outcome = [id \in {} |-> ""],
                            !.removed = {}]
    /\ UNCHANGED <<tasks, verifications, auditLog, req, evalIn, evalOut,
                   apiVars, rlVars, costVars, pwaVars, syncQueue>>

\* The outcome of syncFn for the current item is recorded.
WithOutcome(run, outcome) ==
    [run EXCEPT !.outcome =
        [id \in DOMAIN @ \cup {run.pending[run.i].id} |->
            IF id = run.pending[run.i].id THEN outcome ELSE @[id]]]

\* await syncFn(item) resolves with success.
SyncFnReturns(success) ==
    /\ sync.pc = "syncFn"
    /\ sync' = IF success
               THEN [WithOutcome(sync, "true") EXCEPT !.pc = "remove"]
               ELSE NextItem(WithOutcome(sync, "false"))
    /\ UNCHANGED <<tasks, verifications, auditLog, req, evalIn, evalOut,
                   apiVars, rlVars, costVars, pwaVars, syncQueue>>

\* await syncFn(item) rejects: the catch block logs and the loop goes on.
SyncFnThrows ==
    /\ sync.pc = "syncFn"
    /\ sync' = NextItem(WithOutcome(sync, "threw"))
    /\ UNCHANGED <<tasks, verifications, auditLog, req, evalIn, evalOut,
                   apiVars, rlVars, costVars, pwaVars, syncQueue>>

\* await this.removeSyncItem(item.id) resolves; synced++.
RemoveSucceeds ==
    /\ sync.pc = "remove"
    /\ syncQueue' = Remove(syncQueue, sync.pending[sync.i].id)
    /\ sync' = NextItem([sync EXCEPT !.synced = @ + 1,
                                     !.removed = @ \cup {sync.pending[sync.i].id}])
    /\ UNCHANGED <<tasks, verifications, auditLog, req, evalIn, evalOut,
                   apiVars, rlVars, costVars, pwaVars>>

\* await this.removeSyncItem(item.id) rejects (tx.onerror): the same catch
\* block logs, synced is not incremented, the loop goes on.
RemoveFails ==
    /\ sync.pc = "remove"
    /\ sync' = NextItem(sync)
    /\ UNCHANGED <<tasks, verifications, auditLog, req, evalIn, evalOut,
                   apiVars, rlVars, costVars, pwaVars, syncQueue>>

InitSync ==
    /\ tasks = InitialTasks(DefaultConfig)
    /\ verifications = <<>>
    /\ auditLog = <<>>
    /\ req = [r \in Reqs |-> IdleReq]
    /\ evalIn = IdleEval
    /\ evalOut = <<>>
    /\ IdleApi /\ IdleRateLimit /\ IdleCost /\ IdlePwa /\ IdleOffline

NextSync ==
    \/ \E brandId \in SyncBrands, visitId \in SyncVisits,
          k \in 1..Len(SyncTasks), now \in 1..MaxTimestamp :
           queueMissionCompletion(brandId, visitId, SyncTasks[k], now)
    \/ processSyncQueue_Begin
    \/ processSyncQueue_Rejects
    \/ \E success \in BOOLEAN : SyncFnReturns(success)
    \/ SyncFnThrows
    \/ RemoveSucceeds
    \/ RemoveFails

SpecSync == InitSync /\ [][NextSync]_vars

\* C30: processSyncQueue removes an item only after syncFn returned true
\* for it; when it returns, every pending item has been given to syncFn,
\* every item for which syncFn returned false or threw is still in the
\* queue, every item for which it returned true is gone, and the returned
\* number is the number of items removed.
C30_RemovesOnlySynced ==
    /\ \A id \in sync.removed :
          id \in DOMAIN sync.outcome /\ sync.outcome[id] = "true"
    /\ sync.pc = "returned" =>
          /\ \A k \in 1..Len(sync.pending) :
                LET id == sync.pending[k].id
                IN  /\ id \in DOMAIN sync.outcome
                    /\ sync.outcome[id] \in {"false", "threw"} =>
                          id \in DOMAIN syncQueue
                    /\ sync.outcome[id] = "true" => id \notin DOMAIN syncQueue
          /\ sync.synced = Cardinality(sync.removed)

====
